---------------------------- MODULE Spec2Model ----------------------------
(***************************************************************************)
(* Model of the MCP-LITE orchestration engine (src/api/orchestrator.js):   *)
(* MCPLiteOrchestrator.processRequest and its six phases, the bounded      *)
(* quality loops inside the phases, and the comment-polling protocol of    *)
(* callClaude.                                                             *)
(*                                                                         *)
(* The specifications share the variables:                                 *)
(*   Spec     one run of processRequest; a call of callClaude is one step  *)
(*            whose outcome is a reply body or the timeout error;          *)
(*   SpecAsk  one call of callClaude in detail: the request comment, the   *)
(*            polls of the issue's comment list, and the other authors     *)
(*            that write to the same issue meanwhile;                      *)
(*   SpecChannel  the successive calls of callClaude of one run on the     *)
(*            issue, and the agent that answers the requests;              *)
(*   SpecWait one call of waitForWorkflowCompletion: the status polls and  *)
(*            the workflow run they look at;                               *)
(*   SpecStore  saveToRepo and createBranch against the repository, with   *)
(*            another writer changing the same path;                       *)
(*   SpecSession  the orchestrators constructed for the issues and the     *)
(*            branch name their requests carry;                            *)
(*   SpecHooks  the webhook handlers and the runs they start, each run     *)
(*            reduced to its phase and its plan loop;                      *)
(*   SpecDev  the development plan, with the dependencies of its           *)
(*            components, from the return of phase 3 through phase 4;      *)
(*   SpecTasks  sessions of distinct issues running side by side: their    *)
(*            requests and the replies they read;                          *)
(*   SpecScore  one iteration of a quality gate, from the scores the       *)
(*            verifiers report to the value compared with the threshold;   *)
(*   SpecVariants  phase 2 of the two orchestrators of the repository, the *)
(*            one with the dispatch never accepted, on the same replies;   *)
(*   SpecThread  the comments of an issue, the app's own among them, as    *)
(*            they come back to the issue_comment.created handler;         *)
(*   SpecCall  one call of processRequest together with the entry point    *)
(*            that made it, and what both post when the run fails.         *)
(***************************************************************************)
EXTENDS Integers, Sequences, FiniteSets

VARIABLES
  pc,                 \* position of the run inside processRequest / a phase
  phase,              \* number of the phase last begun (0: none yet)
  branchExists,       \* the ref heads/project-<issueNumber> exists in the repository
  issueComments,      \* status comments posted through updateIssue (tag, msg)
  phaseLog,           \* begin / return / throw events of the phase calls, in order
  error,              \* message of the error caught by processRequest
  iteration,          \* local `iteration` of the running quality loop
  planQuality,        \* local `planQuality` (phase 1 and phase 3)
  researchQuality,    \* local `researchQuality` (phase 2)
  overallQuality,     \* local `overallQuality` (phase 5)
  currentPlan,        \* local `currentPlan` of phase 1 (text returned by the agent)
  plan,               \* processRequest's `plan`
  researchResults,    \* phase 2's `researchResults` / processRequest's `research`
  devPlan,            \* phase 3's `devPlan` text, then processRequest's `devPlan`
  verificationResults,\* local `verificationResults` of phase 5
  improvements,       \* the `result.improvements` still to be walked (phase 2)
  redispatched,       \* researchers triggerSingleResearcher ran again in this round
  loopIdx,            \* index of the running for-of loop
  produceCalls,       \* candidates produced in the running phase (initial + improved)
  verifyCalls,        \* verifications performed in the running phase
  candidateId,        \* number of the candidate text the running phase holds
  verifiedId,         \* number of the candidate the last verification looked at
  planQualityLog,     \* the values planQuality took after each verification
  verificationOutcome,\* overallQuality and iteration when phase 5 returned
  repoLog,            \* the report writes and the pull requests the repository
                      \* has accepted from phase 6, in order
  askPc,              \* position inside callClaude
  attempts,           \* callClaude's `attempts`
  polls,              \* number of listComments calls made by this callClaude
  comments,           \* the issue's comment list, in creation order
  t0,                 \* comment.data.created_at of the request comment
  askResult,          \* body returned by callClaude (0: none)
  clock,              \* the server's time, in seconds
  askNo,              \* number of callClaude calls the run has made on the issue
  inReplyTo,          \* for each comment of the issue: the call whose request the
                      \* agent was answering when it wrote the comment (0: none)
  answered,           \* for each finished call: the body it returned
  waitPc,             \* position inside waitForWorkflowCompletion
  elapsed,            \* Date.now() - startTime, in seconds
  waitPolls,          \* status requests made by this waitForWorkflowCompletion
  latestRun,          \* status / conclusion of the latest run of the workflow
  failureSeenAt,      \* number of the first poll that showed a completed run with
                      \* a conclusion other than success (0: none did)
  latestIsNew,        \* the latest run of the workflow was created after the
                      \* dispatch this wait follows
  savePc,             \* position inside saveToRepo
  sha,                \* saveToRepo's local `sha`
  file,               \* content at the path on the project branch ("none": no file)
  readFile,           \* content at the path when saveToRepo sent its GET
  changes,            \* changes of the path by another writer since that GET
  putOutcome,         \* how the PUT of saveToRepo ended
  overwritten,        \* content the PUT replaced
  branchRef,          \* commit the ref heads/project-<n> points at (0: no such ref)
  mainSha,            \* commit the ref heads/main points at
  branchLog,          \* one record per createBranch call
  sessions,           \* the orchestrators constructed so far, with the branch names
                      \* their runs have sent in requests
  runs,               \* the processRequest calls the webhook handlers have started
  branches,           \* issue numbers n whose ref heads/project-<n> exists
  records,            \* per issue and index i, the runs that have written
                      \* plans/iteration-<i>.json on the branch
  lastEvent,          \* the webhook event handled last
  devPc,              \* position between the return of phase 3 and the end of phase 4
  components,         \* devPlan.components as phase 3 returned them
  dispatched,         \* the components input of the development.yml dispatch
  implemented,        \* names of the components implemented one by one, in order
  tasks,              \* the sessions running side by side, one per issue
  channel,            \* per issue, the agent replies among its comments
  lastRequest,        \* the request a session sent last
  scorePc,            \* position of one gate between the reply and the comparison
  scoreGate,          \* number of the phase whose gate it is
  scoreResults,       \* JSON.parse of the verification replies of the iteration
  scoreCompared,      \* the value the loop condition compares with 95
  agentScript,        \* the replies the agent gives to the requests of phase 2
  fallbackRun,        \* phase 2 of the orchestrator with the dispatch and the fallback
  sequentialRun,      \* phase 2 of the orchestrator that only calls the agent
  thread,             \* the comments of one issue, in the order they were created
  handled,            \* comments whose issue_comment.created event has been handled
  caller,             \* the entry point that called processRequest for the issue
  callPc,             \* position of that call: in processRequest, in its catch, in the caller
  callPhase,          \* phase the called run has announced (0: none yet)
  callError,          \* message of the error the called run caught
  notices             \* comments the call has posted on the issue, in order

runVars == <<pc, phase, branchExists, issueComments, phaseLog, error, iteration,
             planQuality, researchQuality, overallQuality, currentPlan, plan,
             researchResults, devPlan, verificationResults, improvements,
             redispatched, loopIdx, produceCalls, verifyCalls, candidateId, verifiedId, planQualityLog,
             verificationOutcome, repoLog>>

askVars == <<askPc, attempts, polls, comments, t0, askResult, clock>>

chanVars == <<askNo, inReplyTo, answered>>

waitVars == <<waitPc, elapsed, waitPolls, latestRun, failureSeenAt, latestIsNew>>

storeVars == <<savePc, sha, file, readFile, changes, putOutcome, overwritten,
               branchRef, mainSha, branchLog>>

sessionVars == <<sessions>>

hookVars == <<runs, branches, records, lastEvent>>

devVars == <<devPc, components, dispatched, implemented>>

taskVars == <<tasks, channel, lastRequest>>

scoreVars == <<scorePc, scoreGate, scoreResults, scoreCompared>>

variantVars == <<agentScript, fallbackRun, sequentialRun>>

threadVars == <<thread, handled>>

callVars == <<caller, callPc, callPhase, callError, notices>>

vars == <<runVars, askVars, chanVars, waitVars, storeVars, sessionVars, hookVars,
          devVars, taskVars, scoreVars, variantVars, threadVars, callVars>>

-----------------------------------------------------------------------------
(* Bounds of the model and constants of the program.                       *)

MaxComponents == 2      \* longest devPlan.components list an agent returns
MaxImprovements == 1    \* longest result.improvements list a verifier returns
MaxComments == 3        \* length of the issue's comment list
MaxClock == 1           \* seconds the clock may advance during one callClaude
MaxAsks == 2            \* callClaude calls of the run (channel model)
MaxReplies == 2         \* comments the agent writes (channel model)
MaxChannelClock == 2    \* seconds the clock may advance (channel model)
MaxOtherWrites == 2     \* changes of the path by another writer during one saveToRepo
MaxCreateCalls == 2     \* createBranch calls on the same branch name
MaxMainCommits == 2     \* commits pushed to main meanwhile
MaxSessions == 2        \* orchestrators constructed
MaxRequests == 3        \* requests of one run that name the branch
MaxRuns == 2            \* processRequest calls started by the webhook handlers
MaxPlanRecords == 2     \* passes of the plan loop of one run (webhook model)
MaxPlanComponents == 2  \* components of a development plan (dependency model)
MaxTasks == 2           \* sessions running side by side
MaxTaskPolls == 2       \* polls of one callClaude of such a session
MaxThread == 3          \* comments users and runs write on the issue
MaxSlowRequests == 1    \* status requests of one wait that take noticeable time
RequestTime == 5        \* seconds such a status request takes

Threshold == 95         \* `< 95` in every quality loop
PlanIterations == 5     \* phase1_createPlan: iteration < 5
ResearchIterations == 3 \* phase2_research: iteration < 3
DevPlanIterations == 3  \* phase3_createDevPlan: iteration < 3
VerifyIterations == 5   \* phase5_verification: iteration < 5
maxAttempts == 30       \* callClaude: maxAttempts
maxWaitTime == 1800     \* waitForWorkflowCompletion: 30 * 60 * 1000 ms, in seconds
checkInterval == 30     \* waitForWorkflowCompletion: 30 * 1000 ms, in seconds

-----------------------------------------------------------------------------
(* JavaScript values that reach a comparison with the threshold.  A number *)
(* is kept as the fraction n/d, so that the average of phase 5 is exact.   *)

Num(k) == [t |-> "number", n |-> k, d |-> 1]
Undefined == [t |-> "undefined", n |-> 0, d |-> 1]
Str == [t |-> "string", n |-> 0, d |-> 1]      \* a non-empty, non-numeric string
NaN == [t |-> "NaN", n |-> 0, d |-> 1]

\* v || 0
OrZero(v) ==
  IF v.t = "undefined" \/ v.t = "NaN" \/ (v.t = "number" /\ v.n = 0)
  THEN Num(0) ELSE v

\* v < k: a non-numeric string and undefined convert to NaN, and NaN < k is false
LessThan(v, k) == v.t = "number" /\ v.n < k * v.d

\* acc + v of the reduce in phase 5: number + undefined is NaN, anything + string
\* is a string concatenation
Plus(a, b) ==
  IF a.t = "number" /\ b.t = "number" THEN [t |-> "number", n |-> a.n + b.n, d |-> 1]
  ELSE IF a.t = "string" \/ b.t = "string" THEN Str
  ELSE NaN

\* a / k: a concatenated non-numeric string and NaN divide to NaN
Div(a, k) ==
  IF a.t = "number" THEN [t |-> "number", n |-> a.n, d |-> a.d * k] ELSE NaN

RECURSIVE SumScores(_, _)
\* verificationResults.reduce((acc, v) => acc + v.score, 0)
SumScores(results, acc) ==
  IF results = <<>> THEN acc
  ELSE SumScores(Tail(results), Plus(acc, Head(results).score))

-----------------------------------------------------------------------------
(* Replies of the agent.                                                   *)

Scores == {40, 60, 80, 96}
VerifierScores == {40, 96}

\* what JSON.parse(verification).score can be
ScoreValues == {Undefined, Str} \cup {Num(s) : s \in Scores}

\* a verification reply: text that JSON.parse rejects, or a document
ScoreReplies ==
  {[json |-> FALSE, score |-> Undefined]}
    \cup {[json |-> TRUE, score |-> v] : v \in ScoreValues}

DefaultResearchers == <<"web-technology-researcher">>
PlanResearchers == <<"r1", "r2">>

\* a plan text: not JSON, or JSON with or without a `researchers` list
PlanReplies ==
  {[json |-> FALSE, hasResearchers |-> FALSE],
   [json |-> TRUE, hasResearchers |-> FALSE],
   [json |-> TRUE, hasResearchers |-> TRUE]}

NoPlan == [json |-> FALSE, hasResearchers |-> FALSE]

\* plan.researchers || ['web-technology-researcher']
Researchers(p) == IF p.hasResearchers THEN PlanResearchers ELSE DefaultResearchers

\* a development-plan text: not JSON, or JSON with 0..MaxComponents components
DevPlanReplies ==
  {[json |-> FALSE, components |-> 0]}
    \cup {[json |-> TRUE, components |-> n] : n \in 0..MaxComponents}

NoDevPlan == [json |-> FALSE, components |-> 0]

\* keys a research mapping can carry: the researcher names and a foreign name
ResultKeys == {"r1", "r2", "web-technology-researcher", "other"}

\* a research mapping: the shape of the value held under each key.
\*   "absent"  the mapping has no such key
\*   "parsed"  JSON.parse of one text: an agent reply, or a results file of the branch
\*   "files"   what downloadArtifact returns: a mapping from the name of each JSON
\*             file of the artifact to its parsed content
NoResults == [k \in ResultKeys |-> "absent"]

Keys(r) == {k \in ResultKeys : r[k] # "absent"}

\* the names in a list of researchers
Names(units) == {units[i] : i \in 1..Len(units)}

\* a mapping holding values of one shape under the keys K
Results(K, shape) == [k \in ResultKeys |-> IF k \in K THEN shape ELSE "absent"]

\* `result.improvements`: lists of {researcher, suggestion} entries
ImprovementLists == UNION {[1..n -> {"r1", "other"}] : n \in 0..MaxImprovements}

\* research verification reply: score, and `improvements` absent or a list
ResearchReplies ==
  {[json |-> FALSE, score |-> Undefined, hasImprovements |-> FALSE, list |-> <<>>]}
    \cup {[json |-> TRUE, score |-> v, hasImprovements |-> FALSE, list |-> <<>>] :
            v \in ScoreValues}
    \cup {[json |-> TRUE, score |-> v, hasImprovements |-> TRUE, list |-> l] :
            v \in ScoreValues, l \in ImprovementLists}

\* a verifier's reply in phase 5
VerifierReplies ==
  {[json |-> FALSE, score |-> Undefined, fixes |-> FALSE]}
    \cup {[json |-> TRUE, score |-> v, fixes |-> f] :
            v \in {Undefined} \cup {Num(s) : s \in VerifierScores}, f \in BOOLEAN}

verifiers == <<"code-quality-verifier", "security-verifier", "performance-verifier">>

\* what collectWorkflowArtifacts can return for a run dispatched for `units`: one
\* key per artifact of the latest run (artifact.name without '-results'), whatever
\* its name, each holding downloadArtifact's mapping; or, when listing the
\* artifacts fails, readResultsFromRepo's mapping: one key per .json file of the
\* results directory, or {} when that read fails too
CollectedResults(units) ==
  {Results(Names(units), "files"),
   Results(Names(units) \ {units[Len(units)]}, "files"),
   Results({units[1], "other"}, "files"),
   Results(Names(units), "parsed"),
   NoResults}

-----------------------------------------------------------------------------
(* One run of processRequest.                                              *)

counters == <<produceCalls, verifyCalls, candidateId, verifiedId, planQualityLog>>
qualities == <<planQuality, researchQuality, overallQuality>>
values == <<currentPlan, plan, researchResults, devPlan, verificationResults,
            improvements, redispatched, loopIdx, verificationOutcome>>
outputs == <<plan, researchResults, devPlan, verificationOutcome>>

Status(tag) == [tag |-> tag, msg |-> ""]

\* an entry of phaseLog: phase `ph` began, returned, or threw `msg` at position `at`
Event(ev, ph, msg, at) == [ev |-> ev, ph |-> ph, msg |-> msg, at |-> at]

\* updateIssue(message)
updateIssue(messages) == issueComments' = issueComments \cup messages

\* a phase method is called: the locals of the phase that returned are gone, the
\* locals of the new one hold their initial values
Begin(k) ==
  /\ phase' = k
  /\ phaseLog' = Append(phaseLog, Event("begin", k, "", ""))
  /\ iteration' = 0
  /\ planQuality' = Num(0)
  /\ researchQuality' = Num(0)
  /\ overallQuality' = Num(0)
  /\ currentPlan' = NoPlan
  /\ verificationResults' = <<>>
  /\ improvements' = <<>>
  /\ redispatched' = {}
  /\ loopIdx' = 0
  /\ produceCalls' = 0
  /\ verifyCalls' = 0
  /\ candidateId' = 0
  /\ verifiedId' = 0
  /\ planQualityLog' = <<>>

\* the running phase method returns to processRequest
Return ==
  /\ phaseLog' = Append(phaseLog, Event("return", phase, "", ""))
  /\ UNCHANGED <<phase, error>>

\* an error leaves the running phase method and reaches the catch of processRequest
Throw(msg) ==
  /\ pc' = "catch"
  /\ error' = msg
  /\ phaseLog' = Append(phaseLog, Event("throw", phase, msg, pc))
  /\ UNCHANGED phase

\* saveToRepo that tries the PUT again, without a budget, until it is accepted
saveToRepo_retriesForever(next) ==
  \/ /\ branchExists
     /\ pc' = next
     /\ UNCHANGED <<phase, phaseLog, error>>
  \/ /\ ~branchExists
     /\ UNCHANGED <<pc, phase, phaseLog, error>>

\* saveToRepo: the PUT on a branch that does not exist is rejected
saveToRepo(next) ==
  \/ /\ branchExists
     /\ pc' = next
     /\ UNCHANGED <<phase, phaseLog, error>>
  \/ /\ ~branchExists
     /\ Throw("Not Found")

\* payload.issue.number of the events delivered to the handlers
HookIssues == {42}

\* the files plans/iteration-<index>.json of the project branches
RecordKeys == HookIssues \X (0..(MaxPlanRecords - 1))

\* no webhook event handled yet
NoEvent == [issueNumber |-> 0, kind |-> "none"]

\* payload.issue.number of the issues whose sessions run side by side
TaskIssues == {4, 24, 42}

\* no request sent yet
NoRequest == [by |-> 0, kind |-> "none", issue_number |-> 0, branch |-> <<>>]

\* the verification replies of a script: those that differ in how the loop goes on
ScriptReplies == {r \in ResearchReplies : r.score \in {Undefined, Num(40), Num(96)}}

\* no script chosen yet
NoScript == [chosen |-> FALSE, hasResearchers |-> FALSE,
             verify |-> [i \in 1..ResearchIterations |->
                           [json |-> FALSE, score |-> Undefined,
                            hasImprovements |-> FALSE, list |-> <<>>]]]

\* phase2_research not yet called
NoVariantRun == [pc |-> "start", idx |-> 1, iteration |-> 0, quality |-> Num(0),
                 improvements |-> <<>>, requests |-> <<>>,
                 results |-> [k \in ResultKeys |-> <<>>]]

\* saveToRepo's `let sha;` as long as nothing is assigned to it
NoSha == <<>>

Init ==
  /\ pc = "start"
  /\ phase = 0
  /\ branchExists \in BOOLEAN
  /\ issueComments = {}
  /\ phaseLog = <<>>
  /\ error = ""
  /\ iteration = 0
  /\ planQuality = Num(0)
  /\ researchQuality = Num(0)
  /\ overallQuality = Num(0)
  /\ currentPlan = NoPlan
  /\ plan = NoPlan
  /\ researchResults = NoResults
  /\ devPlan = NoDevPlan
  /\ verificationResults = <<>>
  /\ improvements = <<>>
  /\ redispatched = {}
  /\ loopIdx = 0
  /\ produceCalls = 0
  /\ verifyCalls = 0
  /\ candidateId = 0
  /\ verifiedId = 0
  /\ planQualityLog = <<>>
  /\ verificationOutcome = [quality |-> Num(0), iterations |-> 0]
  /\ repoLog = <<>>
  /\ askPc = "idle"
  /\ attempts = 0
  /\ polls = 0
  /\ comments = <<>>
  /\ t0 = 0
  /\ askResult = 0
  /\ clock = 0
  /\ askNo = 0
  /\ inReplyTo = <<>>
  /\ answered = <<>>
  /\ waitPc = "idle"
  /\ elapsed = 0
  /\ waitPolls = 0
  /\ latestRun = "none"
  /\ failureSeenAt = 0
  /\ latestIsNew = FALSE
  /\ savePc = "idle"
  /\ sha = NoSha
  /\ file = "none"
  /\ readFile = "none"
  /\ changes = 0
  /\ putOutcome = "none"
  /\ overwritten = "none"
  /\ branchRef = 0
  /\ mainSha = 1
  /\ branchLog = <<>>
  /\ sessions = <<>>
  /\ runs = <<>>
  /\ branches = {}
  /\ records = [key \in RecordKeys |-> {}]
  /\ lastEvent = NoEvent
  /\ devPc = "phase3"
  /\ components = <<>>
  /\ dispatched = <<>>
  /\ implemented = <<>>
  /\ tasks = <<>>
  /\ channel = [n \in TaskIssues |-> {}]
  /\ lastRequest = NoRequest
  /\ scorePc = "verify"
  /\ scoreGate = 0
  /\ scoreResults = <<>>
  /\ scoreCompared = Num(0)
  /\ agentScript = NoScript
  /\ fallbackRun = NoVariantRun
  /\ sequentialRun = NoVariantRun
  /\ thread = <<>>
  /\ handled = 0
  /\ caller = "none"
  /\ callPc = "idle"
  /\ callPhase = 0
  /\ callError = "none"
  /\ notices = <<>>

\* processRequest, lines 20-26: the two status comments, then phase1_createPlan
\* is called and initialises its locals
processRequest_start ==
  /\ pc = "start"
  /\ updateIssue({Status("starting"), Status("phase1")})
  /\ Begin(1)
  /\ pc' = "p1_loop"
  /\ UNCHANGED <<branchExists, error, outputs>>

\* phase1_loop with the threshold test lost: while (iteration < 5)
phase1_loop_ignoresThreshold ==
  /\ pc = "p1_loop"
  /\ IF iteration < PlanIterations
     THEN /\ pc' = "p1_plan"
          /\ UNCHANGED <<phase, phaseLog, error, plan>>
     ELSE IF currentPlan.json
     THEN /\ plan' = currentPlan
          /\ pc' = "phase2"
          /\ Return
     ELSE /\ Throw("SyntaxError")
          /\ UNCHANGED plan
  /\ UNCHANGED <<branchExists, issueComments, iteration, qualities, counters,
                 currentPlan, researchResults, devPlan, verificationResults,
                 improvements, redispatched, loopIdx, verificationOutcome>>

\* while (planQuality < 95 && iteration < 5) ... return JSON.parse(currentPlan)
phase1_loop ==
  /\ pc = "p1_loop"
  /\ IF LessThan(planQuality, Threshold) /\ iteration < PlanIterations
     THEN /\ pc' = "p1_plan"
          /\ UNCHANGED <<phase, phaseLog, error, plan>>
     ELSE IF currentPlan.json
     THEN /\ plan' = currentPlan
          /\ pc' = "phase2"
          /\ Return
     ELSE /\ Throw("SyntaxError")
          /\ UNCHANGED plan
  /\ UNCHANGED <<branchExists, issueComments, iteration, qualities, counters,
                 currentPlan, researchResults, devPlan, verificationResults,
                 improvements, redispatched, loopIdx, verificationOutcome>>

\* currentPlan = await this.callClaude(planPrompt)
phase1_callClaudePlan ==
  /\ pc = "p1_plan"
  /\ produceCalls' = produceCalls + 1
  /\ \/ /\ Throw("timeout")
        /\ UNCHANGED <<currentPlan, candidateId>>
     \/ /\ \E r \in PlanReplies : currentPlan' = r
        /\ candidateId' = candidateId + 1
        /\ pc' = "p1_save"
        /\ UNCHANGED <<phase, phaseLog, error>>
  /\ UNCHANGED <<branchExists, issueComments, iteration, qualities, verifyCalls,
                 verifiedId, planQualityLog, plan, researchResults, devPlan,
                 verificationResults, improvements, redispatched, loopIdx, verificationOutcome>>

\* await this.saveToRepo(`plans/iteration-${iteration}.json`, ...)
phase1_saveToRepo ==
  /\ pc = "p1_save"
  /\ saveToRepo("p1_verify")
  /\ UNCHANGED <<branchExists, issueComments, iteration, qualities, counters, values>>

\* verification = await this.callClaude(verificationPrompt); try { planQuality =
\* JSON.parse(verification).score || 0 } catch { planQuality = 0 }; iteration++
phase1_callClaudeVerify ==
  /\ pc = "p1_verify"
  /\ verifyCalls' = verifyCalls + 1
  /\ verifiedId' = candidateId
  /\ \/ /\ Throw("timeout")
        /\ UNCHANGED <<planQuality, planQualityLog, iteration>>
     \/ /\ \E r \in ScoreReplies :
             LET q == IF r.json THEN OrZero(r.score) ELSE Num(0) IN
             /\ planQuality' = q
             /\ planQualityLog' = Append(planQualityLog, q)
        /\ iteration' = iteration + 1
        /\ pc' = "p1_loop"
        /\ UNCHANGED <<phase, phaseLog, error>>
  /\ UNCHANGED <<branchExists, issueComments, researchQuality, overallQuality,
                 produceCalls, candidateId, values>>

\* processRequest_catch that does not rethrow and falls through to the completion
processRequest_catch_fallsThrough ==
  /\ pc = "catch"
  /\ updateIssue({[tag |-> "error", msg |-> error]})
  /\ pc' = "completing"
  /\ UNCHANGED <<phase, branchExists, phaseLog, error, iteration, qualities,
                 counters, values>>

\* processRequest_catch that reports a fixed text instead of error.message
processRequest_catch_fixedText ==
  /\ pc = "catch"
  /\ updateIssue({[tag |-> "error", msg |-> "Processing failed"]})
  /\ pc' = "failed"
  /\ UNCHANGED <<phase, branchExists, phaseLog, error, iteration, qualities,
                 counters, values>>

\* catch (error) { await this.updateIssue(`Error: ${error.message}`); throw error }
processRequest_catch ==
  /\ pc = "catch"
  /\ updateIssue({[tag |-> "error", msg |-> error]})
  /\ pc' = "failed"
  /\ UNCHANGED <<phase, branchExists, phaseLog, error, iteration, qualities,
                 counters, values>>

-----------------------------------------------------------------------------
(* Phase 2: research.                                                      *)

\* processRequest, lines 29-30
processRequest_phase2 ==
  /\ pc = "phase2"
  /\ updateIssue({Status("phase2")})
  /\ Begin(2)
  /\ pc' = "p2_save"
  /\ UNCHANGED <<branchExists, error, outputs>>

\* await this.saveToRepo('plans/final-plan.json', ...), outside the try
phase2_saveToRepo ==
  /\ pc = "p2_save"
  /\ saveToRepo("p2_dispatch")
  /\ UNCHANGED <<branchExists, issueComments, iteration, qualities, counters, values>>

\* the catch of phase2_research: const researchResults = {}; for (const researcher of ...)
phase2_fallback ==
  /\ pc' = "p2_seq"
  /\ researchResults' = NoResults
  /\ loopIdx' = 1
  /\ UNCHANGED <<phase, phaseLog, error>>

\* POST .../workflows/research.yml/dispatches; updateIssue('Triggered ...')
phase2_dispatch ==
  /\ pc = "p2_dispatch"
  /\ \/ /\ updateIssue({Status("research-triggered")})
        /\ produceCalls' = produceCalls + 1
        /\ pc' = "p2_wait"
        /\ UNCHANGED <<phase, phaseLog, error, researchResults, loopIdx>>
     \/ /\ phase2_fallback
        /\ UNCHANGED <<issueComments, produceCalls>>
  /\ UNCHANGED <<branchExists, iteration, qualities, verifyCalls, candidateId,
                 verifiedId, planQualityLog, currentPlan, plan, devPlan,
                 verificationResults, improvements, redispatched, verificationOutcome>>

\* await this.waitForWorkflowCompletion('research'): returns, or throws after the
\* maximum wait
phase2_waitForWorkflowCompletion ==
  /\ pc = "p2_wait"
  /\ \/ /\ pc' = "p2_collect"
        /\ UNCHANGED <<phase, phaseLog, error, researchResults, loopIdx>>
     \/ phase2_fallback
  /\ UNCHANGED <<branchExists, issueComments, iteration, qualities, counters,
                 currentPlan, plan, devPlan, verificationResults, improvements, redispatched,
                 verificationOutcome>>

\* const researchResults = await this.collectWorkflowArtifacts('research');
\* let researchQuality = 0; let iteration = 0
phase2_collectWorkflowArtifacts ==
  /\ pc = "p2_collect"
  /\ researchResults' \in CollectedResults(Researchers(plan))
  /\ researchQuality' = Num(0)
  /\ iteration' = 0
  /\ pc' = "p2_loop"
  /\ UNCHANGED <<phase, branchExists, issueComments, phaseLog, error, planQuality,
                 overallQuality, counters, currentPlan, plan, devPlan,
                 verificationResults, improvements, redispatched, loopIdx, verificationOutcome>>

\* while (researchQuality < 95 && iteration < 3) ... return researchResults
phase2_loop ==
  /\ pc = "p2_loop"
  /\ IF LessThan(researchQuality, Threshold) /\ iteration < ResearchIterations
     THEN /\ pc' = "p2_verify"
          /\ UNCHANGED <<phase, phaseLog, error>>
     ELSE /\ pc' = "phase3"
          /\ Return
  /\ UNCHANGED <<branchExists, issueComments, iteration, qualities, counters, values>>

\* verification = await this.callClaude(verifyPrompt), inside the outer try only;
\* then the inner try: score, and the improvements when the score is low
phase2_callClaudeVerify ==
  /\ pc = "p2_verify"
  /\ verifyCalls' = verifyCalls + 1
  /\ \/ /\ phase2_fallback
        /\ UNCHANGED <<issueComments, researchQuality, iteration, improvements, redispatched>>
     \/ /\ \E r \in ResearchReplies :
             LET q == IF r.json THEN OrZero(r.score) ELSE Num(0) IN
             /\ researchQuality' = q
             /\ IF r.json /\ LessThan(q, Threshold) /\ r.hasImprovements
                THEN /\ updateIssue({Status("research-improving")})
                     /\ improvements' = r.list
                     /\ redispatched' = {}
                     /\ pc' = "p2_improve"
                     /\ UNCHANGED iteration
                ELSE /\ iteration' = iteration + 1
                     /\ pc' = "p2_loop"
                     /\ UNCHANGED <<issueComments, improvements, redispatched>>
        /\ UNCHANGED <<phase, phaseLog, error, researchResults, loopIdx>>
  /\ UNCHANGED <<branchExists, planQuality, overallQuality, produceCalls,
                 candidateId, verifiedId, planQualityLog, currentPlan, plan, devPlan,
                 verificationResults, verificationOutcome>>

\* await this.triggerSingleResearcher(improvement.researcher, improvement.suggestion):
\* saves the task, dispatches research.yml for that researcher and waits; every
\* error is caught inside
phase2_triggerSingleResearcher ==
  /\ pc = "p2_improve"
  /\ improvements # <<>>
  /\ improvements' = Tail(improvements)
  /\ \/ redispatched' = redispatched \cup {Head(improvements)}
     \/ UNCHANGED redispatched      \* catch (error) { console.error(...) }
  /\ produceCalls' = produceCalls + 1
  /\ UNCHANGED <<pc, phase, branchExists, issueComments, phaseLog, error, iteration,
                 qualities, verifyCalls, candidateId, verifiedId, planQualityLog,
                 currentPlan, plan, researchResults, devPlan, verificationResults,
                 loopIdx, verificationOutcome>>

\* researchResults = await this.collectWorkflowArtifacts('research'): the
\* assignment to the const binding throws a TypeError, which the inner catch
\* turns into researchQuality = 0; iteration++
phase2_recollect ==
  /\ pc = "p2_improve"
  /\ improvements = <<>>
  /\ researchQuality' = Num(0)
  /\ iteration' = iteration + 1
  /\ redispatched' = {}
  /\ pc' = "p2_loop"
  /\ UNCHANGED <<phase, branchExists, issueComments, phaseLog, error, planQuality,
                 overallQuality, counters, currentPlan, plan, researchResults,
                 devPlan, verificationResults, improvements, loopIdx,
                 verificationOutcome>>

\* phase2_sequential whose loop stops one researcher short
phase2_sequential_skipsLast ==
  /\ pc = "p2_seq"
  /\ IF loopIdx < Len(Researchers(plan))
     THEN \/ /\ Throw("timeout")
             /\ UNCHANGED <<researchResults, loopIdx>>
          \/ /\ Throw("SyntaxError")
             /\ UNCHANGED <<researchResults, loopIdx>>
          \/ /\ researchResults' =
                  [researchResults EXCEPT ![Researchers(plan)[loopIdx]] = "parsed"]
             /\ loopIdx' = loopIdx + 1
             /\ UNCHANGED <<pc, phase, phaseLog, error>>
     ELSE /\ pc' = "phase3"
          /\ Return
          /\ UNCHANGED <<researchResults, loopIdx>>
  /\ UNCHANGED <<branchExists, issueComments, iteration, qualities, counters,
                 currentPlan, plan, devPlan, verificationResults, improvements, redispatched,
                 verificationOutcome>>

\* fallback: for (const researcher of plan.researchers || [...]) { result = await
\* this.callClaude(researchPrompt); researchResults[researcher] = JSON.parse(result) }
phase2_sequential ==
  /\ pc = "p2_seq"
  /\ IF loopIdx <= Len(Researchers(plan))
     THEN \/ /\ Throw("timeout")
             /\ UNCHANGED <<researchResults, loopIdx>>
          \/ /\ Throw("SyntaxError")
             /\ UNCHANGED <<researchResults, loopIdx>>
          \/ /\ researchResults' =
                  [researchResults EXCEPT ![Researchers(plan)[loopIdx]] = "parsed"]
             /\ loopIdx' = loopIdx + 1
             /\ UNCHANGED <<pc, phase, phaseLog, error>>
     ELSE /\ pc' = "phase3"
          /\ Return
          /\ UNCHANGED <<researchResults, loopIdx>>
  /\ UNCHANGED <<branchExists, issueComments, iteration, qualities, counters,
                 currentPlan, plan, devPlan, verificationResults, improvements, redispatched,
                 verificationOutcome>>

-----------------------------------------------------------------------------
(* Phase 3: development plan.                                              *)

\* processRequest, lines 33-34
processRequest_phase3 ==
  /\ pc = "phase3"
  /\ updateIssue({Status("phase3")})
  /\ Begin(3)
  /\ pc' = "p3_plan"
  /\ UNCHANGED <<branchExists, error, outputs>>

\* let devPlan = await this.callClaude(devPlanPrompt); planQuality = 0; iteration = 0
phase3_callClaudeDevPlan ==
  /\ pc = "p3_plan"
  /\ produceCalls' = produceCalls + 1
  /\ \/ /\ Throw("timeout")
        /\ UNCHANGED <<devPlan, candidateId, planQuality, iteration>>
     \/ /\ \E r \in DevPlanReplies : devPlan' = r
        /\ candidateId' = candidateId + 1
        /\ planQuality' = Num(0)
        /\ iteration' = 0
        /\ pc' = "p3_loop"
        /\ UNCHANGED <<phase, phaseLog, error>>
  /\ UNCHANGED <<branchExists, issueComments, researchQuality, overallQuality,
                 verifyCalls, verifiedId, planQualityLog, currentPlan, plan,
                 researchResults, verificationResults, improvements, redispatched, loopIdx,
                 verificationOutcome>>

\* while (planQuality < 95 && iteration < 3) ... return JSON.parse(devPlan)
phase3_loop ==
  /\ pc = "p3_loop"
  /\ IF LessThan(planQuality, Threshold) /\ iteration < DevPlanIterations
     THEN /\ pc' = "p3_verify"
          /\ UNCHANGED <<phase, phaseLog, error>>
     ELSE IF devPlan.json
     THEN /\ pc' = "phase4"
          /\ Return
     ELSE Throw("SyntaxError")
  /\ UNCHANGED <<branchExists, issueComments, iteration, qualities, counters, values>>

\* verification = await this.callClaude(verifyPrompt), outside the try; then
\* try { planQuality = result.score || 0; if (planQuality < 95) improve } catch ...
phase3_callClaudeVerify ==
  /\ pc = "p3_verify"
  /\ verifyCalls' = verifyCalls + 1
  /\ verifiedId' = candidateId
  /\ \/ /\ Throw("timeout")
        /\ UNCHANGED <<planQuality, planQualityLog, iteration>>
     \/ /\ \E r \in ScoreReplies :
             LET q == IF r.json THEN OrZero(r.score) ELSE Num(0) IN
             /\ planQuality' = q
             /\ planQualityLog' = Append(planQualityLog, q)
             /\ IF r.json /\ LessThan(q, Threshold)
                THEN /\ pc' = "p3_improve"
                     /\ UNCHANGED iteration
                ELSE /\ iteration' = iteration + 1
                     /\ pc' = "p3_loop"
        /\ UNCHANGED <<phase, phaseLog, error>>
  /\ UNCHANGED <<branchExists, issueComments, researchQuality, overallQuality,
                 produceCalls, candidateId, values>>

\* devPlan = await this.callClaude(improvePrompt), inside the try: a timeout is
\* caught and sets planQuality = 0; iteration++
phase3_callClaudeImprove ==
  /\ pc = "p3_improve"
  /\ produceCalls' = produceCalls + 1
  /\ \/ /\ planQuality' = Num(0)
        /\ UNCHANGED <<devPlan, candidateId>>
     \/ /\ \E r \in DevPlanReplies : devPlan' = r
        /\ candidateId' = candidateId + 1
        /\ UNCHANGED planQuality
  /\ iteration' = iteration + 1
  /\ pc' = "p3_loop"
  /\ UNCHANGED <<phase, branchExists, issueComments, phaseLog, error,
                 researchQuality, overallQuality, verifyCalls, verifiedId,
                 planQualityLog, currentPlan, plan, researchResults,
                 verificationResults, improvements, redispatched, loopIdx, verificationOutcome>>

-----------------------------------------------------------------------------
(* Phase 4: development.                                                   *)

\* processRequest, lines 37-38
processRequest_phase4 ==
  /\ pc = "phase4"
  /\ updateIssue({Status("phase4")})
  /\ Begin(4)
  /\ pc' = "p4_branch"
  /\ UNCHANGED <<branchExists, error, outputs>>

\* await this.createBranch(this.projectBranch): status 422 (the ref exists) is
\* swallowed, any other error is rethrown
phase4_createBranch ==
  /\ pc = "p4_branch"
  /\ \/ /\ branchExists' = TRUE
        /\ pc' = "p4_save"
        /\ UNCHANGED <<phase, phaseLog, error>>
     \/ /\ Throw("HttpError")
        /\ UNCHANGED branchExists
  /\ UNCHANGED <<issueComments, iteration, qualities, counters, values>>

\* await this.saveToRepo('plans/development-plan.json', ...)
phase4_saveToRepo ==
  /\ pc = "p4_save"
  /\ saveToRepo("p4_dispatch")
  /\ UNCHANGED <<branchExists, issueComments, iteration, qualities, counters, values>>

\* POST .../workflows/development.yml/dispatches; updateIssue('Triggered ...');
\* a failure enters the catch: for (const component of devPlan.components || [])
phase4_dispatch ==
  /\ pc = "p4_dispatch"
  /\ \/ /\ updateIssue({Status("development-triggered")})
        /\ pc' = "p4_wait"
        /\ UNCHANGED loopIdx
     \/ /\ pc' = "p4_seq"
        /\ loopIdx' = 1
        /\ UNCHANGED issueComments
  /\ UNCHANGED <<phase, branchExists, phaseLog, error, iteration, qualities, counters,
                 currentPlan, plan, researchResults, devPlan, verificationResults,
                 improvements, redispatched, verificationOutcome>>

\* await this.waitForWorkflowCompletion('development'), inside the try
phase4_waitForWorkflowCompletion ==
  /\ pc = "p4_wait"
  /\ \/ /\ pc' = "phase5"
        /\ Return
        /\ UNCHANGED loopIdx
     \/ /\ pc' = "p4_seq"
        /\ loopIdx' = 1
        /\ UNCHANGED <<phase, phaseLog, error>>
  /\ UNCHANGED <<branchExists, issueComments, iteration, qualities, counters,
                 currentPlan, plan, researchResults, devPlan, verificationResults,
                 improvements, redispatched, verificationOutcome>>

\* fallback: for each component, callClaudeWithFiles then commitChanges
\* (updateIssue('Triggering commit ...'), then the repository dispatch event)
phase4_sequential ==
  /\ pc = "p4_seq"
  /\ IF loopIdx <= devPlan.components
     THEN \/ /\ Throw("timeout")
             /\ UNCHANGED <<issueComments, loopIdx>>
          \/ /\ updateIssue({Status("commit")})
             /\ Throw("HttpError")
             /\ UNCHANGED loopIdx
          \/ /\ updateIssue({Status("commit")})
             /\ loopIdx' = loopIdx + 1
             /\ UNCHANGED <<pc, phase, phaseLog, error>>
     ELSE /\ pc' = "phase5"
          /\ Return
          /\ UNCHANGED <<issueComments, loopIdx>>
  /\ UNCHANGED <<branchExists, iteration, qualities, counters, currentPlan, plan,
                 researchResults, devPlan, verificationResults, improvements, redispatched,
                 verificationOutcome>>

-----------------------------------------------------------------------------
(* Phase 5: verification.                                                  *)

\* processRequest, lines 41-42; let overallQuality = 0; let iteration = 0
processRequest_phase5 ==
  /\ pc = "phase5"
  /\ updateIssue({Status("phase5")})
  /\ Begin(5)
  /\ pc' = "p5_loop"
  /\ UNCHANGED <<branchExists, error, outputs>>

\* while (overallQuality < 95 && iteration < 5) { const verificationResults = [] ...
phase5_loop ==
  /\ pc = "p5_loop"
  /\ IF LessThan(overallQuality, Threshold) /\ iteration < VerifyIterations
     THEN /\ pc' = "p5_verify"
          /\ verificationResults' = <<>>
          /\ UNCHANGED <<phase, phaseLog, error>>
          /\ UNCHANGED verificationOutcome
     ELSE /\ pc' = "phase6"
          /\ verificationOutcome' = [quality |-> overallQuality,
                                     iterations |-> iteration]
          /\ Return
          /\ UNCHANGED verificationResults
  /\ UNCHANGED <<branchExists, issueComments, iteration, qualities, counters,
                 currentPlan, plan, researchResults, devPlan, improvements, redispatched, loopIdx>>

\* for (const verifier of verifiers) { result = await this.callClaude(verifyPrompt);
\* verificationResults.push(JSON.parse(result)) }, with no try around it; after the
\* last verifier: overallQuality = sum of the scores / length
phase5_callClaudeVerifier ==
  /\ pc = "p5_verify"
  /\ \/ /\ Throw("timeout")
        /\ UNCHANGED <<verificationResults, overallQuality, iteration, loopIdx,
                       verifyCalls>>
     \/ /\ Throw("SyntaxError")
        /\ UNCHANGED <<verificationResults, overallQuality, iteration, loopIdx,
                       verifyCalls>>
     \/ /\ \E r \in {v \in VerifierReplies : v.json} :
             LET results == Append(verificationResults,
                                   [score |-> r.score, fixes |-> r.fixes])
                 overall == Div(SumScores(results, Num(0)), Len(results))
             IN
             /\ verificationResults' = results
             /\ IF Len(results) < Len(verifiers)
                THEN UNCHANGED <<pc, overallQuality, iteration, loopIdx, verifyCalls>>
                ELSE /\ overallQuality' = overall
                     /\ verifyCalls' = verifyCalls + 1
                     /\ IF LessThan(overall, Threshold)
                        THEN /\ pc' = "p5_fix"
                             /\ loopIdx' = 1
                             /\ UNCHANGED iteration
                        ELSE /\ pc' = "p5_loop"
                             /\ iteration' = iteration + 1
                             /\ UNCHANGED loopIdx
        /\ UNCHANGED <<phase, phaseLog, error>>
  /\ UNCHANGED <<branchExists, issueComments, planQuality, researchQuality,
                 produceCalls, candidateId, verifiedId, planQualityLog, currentPlan,
                 plan, researchResults, devPlan, improvements, redispatched, verificationOutcome>>

\* for (const verification of verificationResults) if (verification.fixes &&
\* verification.fixes.length > 0) await this.callClaudeWithFiles(fixPrompt, ...)
phase5_applyFixes ==
  /\ pc = "p5_fix"
  /\ loopIdx <= Len(verificationResults)
  /\ IF verificationResults[loopIdx].fixes
     THEN \/ /\ Throw("timeout")
             /\ UNCHANGED loopIdx
          \/ /\ loopIdx' = loopIdx + 1
             /\ UNCHANGED <<pc, phase, phaseLog, error>>
     ELSE /\ loopIdx' = loopIdx + 1
          /\ UNCHANGED <<pc, phase, phaseLog, error>>
  /\ UNCHANGED <<branchExists, issueComments, iteration, qualities, counters,
                 currentPlan, plan, researchResults, devPlan, verificationResults,
                 improvements, redispatched, verificationOutcome>>

\* await this.commitChanges(`Apply verification fixes ...`); iteration++
phase5_commitChanges ==
  /\ pc = "p5_fix"
  /\ loopIdx > Len(verificationResults)
  /\ updateIssue({Status("commit")})
  /\ produceCalls' = produceCalls + 1
  /\ \/ /\ Throw("HttpError")
        /\ UNCHANGED iteration
     \/ /\ iteration' = iteration + 1
        /\ pc' = "p5_loop"
        /\ UNCHANGED <<phase, phaseLog, error>>
  /\ UNCHANGED <<branchExists, qualities, verifyCalls, candidateId, verifiedId,
                 planQualityLog, values>>

-----------------------------------------------------------------------------
(* Phase 6: report, and the end of processRequest.                         *)

\* processRequest, lines 45-46
processRequest_phase6 ==
  /\ pc = "phase6"
  /\ updateIssue({Status("phase6")})
  /\ Begin(6)
  /\ pc' = "p6_report"
  /\ UNCHANGED <<branchExists, error, outputs>>

\* const report = await this.callClaude(reportPrompt)
phase6_callClaudeReport ==
  /\ pc = "p6_report"
  /\ \/ Throw("timeout")
     \/ /\ pc' = "p6_save"
        /\ UNCHANGED <<phase, phaseLog, error>>
  /\ UNCHANGED <<branchExists, issueComments, iteration, qualities, counters, values>>

\* PUT contents/reports/project-${this.issueNumber}.md on this.projectBranch
ReportWrite == [kind |-> "PUT contents", path |-> "reports/project-issueNumber.md",
                branch |-> "projectBranch", title |-> "", body |-> ""]

\* POST pulls: title `... Implementation for #${this.issueNumber}`, body `... Closes
\* #${this.issueNumber}`, head this.projectBranch
PullRequest == [kind |-> "POST pulls", path |-> "",
                branch |-> "projectBranch", title |-> "#issueNumber",
                body |-> "Closes #issueNumber"]

\* await this.saveToRepo(`reports/project-${this.issueNumber}.md`, ...)
phase6_saveToRepo ==
  /\ pc = "p6_save"
  /\ saveToRepo("p6_pr")
  /\ repoLog' = IF branchExists THEN Append(repoLog, ReportWrite) ELSE repoLog
  /\ UNCHANGED <<branchExists, issueComments, iteration, qualities, counters, values>>

\* createPullRequest whose catch logs the error and returns
phase6_createPullRequest_swallows ==
  /\ pc = "p6_pr"
  /\ \/ /\ pc' = "completing"
        /\ Return
        /\ UNCHANGED <<issueComments, repoLog>>
     \/ /\ repoLog' = Append(repoLog, PullRequest)
        /\ pc' = "completing"
        /\ Return
        /\ UNCHANGED issueComments
     \/ /\ repoLog' = Append(repoLog, PullRequest)
        /\ updateIssue({Status("pull-request")})
        /\ pc' = "completing"
        /\ Return
  /\ UNCHANGED <<branchExists, iteration, qualities, counters, values>>

\* await this.createPullRequest(): POST .../pulls, then updateIssue('Pull Request
\* created'); an error of either request is rethrown
phase6_createPullRequest ==
  /\ pc = "p6_pr"
  /\ \/ /\ Throw("HttpError")
        /\ UNCHANGED <<issueComments, repoLog>>
     \/ /\ repoLog' = Append(repoLog, PullRequest)
        /\ Throw("HttpError")
        /\ UNCHANGED issueComments
     \/ /\ repoLog' = Append(repoLog, PullRequest)
        /\ updateIssue({Status("pull-request")})
        /\ pc' = "completing"
        /\ Return
  /\ UNCHANGED <<branchExists, iteration, qualities, counters, values>>

\* await this.updateIssue('Project completed successfully!')
processRequest_complete ==
  /\ pc = "completing"
  /\ updateIssue({Status("completed")})
  /\ pc' = "done"
  /\ UNCHANGED <<phase, branchExists, phaseLog, error, iteration, qualities,
                 counters, values>>

Next ==
  /\ \/ processRequest_start /\ UNCHANGED repoLog
     \/ phase1_loop /\ UNCHANGED repoLog
     \/ phase1_callClaudePlan /\ UNCHANGED repoLog
     \/ phase1_saveToRepo /\ UNCHANGED repoLog
     \/ phase1_callClaudeVerify /\ UNCHANGED repoLog
     \/ processRequest_phase2 /\ UNCHANGED repoLog
     \/ phase2_saveToRepo /\ UNCHANGED repoLog
     \/ phase2_dispatch /\ UNCHANGED repoLog
     \/ phase2_waitForWorkflowCompletion /\ UNCHANGED repoLog
     \/ phase2_collectWorkflowArtifacts /\ UNCHANGED repoLog
     \/ phase2_loop /\ UNCHANGED repoLog
     \/ phase2_callClaudeVerify /\ UNCHANGED repoLog
     \/ phase2_triggerSingleResearcher /\ UNCHANGED repoLog
     \/ phase2_recollect /\ UNCHANGED repoLog
     \/ phase2_sequential /\ UNCHANGED repoLog
     \/ processRequest_phase3 /\ UNCHANGED repoLog
     \/ phase3_callClaudeDevPlan /\ UNCHANGED repoLog
     \/ phase3_loop /\ UNCHANGED repoLog
     \/ phase3_callClaudeVerify /\ UNCHANGED repoLog
     \/ phase3_callClaudeImprove /\ UNCHANGED repoLog
     \/ processRequest_phase4 /\ UNCHANGED repoLog
     \/ phase4_createBranch /\ UNCHANGED repoLog
     \/ phase4_saveToRepo /\ UNCHANGED repoLog
     \/ phase4_dispatch /\ UNCHANGED repoLog
     \/ phase4_waitForWorkflowCompletion /\ UNCHANGED repoLog
     \/ phase4_sequential /\ UNCHANGED repoLog
     \/ processRequest_phase5 /\ UNCHANGED repoLog
     \/ phase5_loop /\ UNCHANGED repoLog
     \/ phase5_callClaudeVerifier /\ UNCHANGED repoLog
     \/ phase5_applyFixes /\ UNCHANGED repoLog
     \/ phase5_commitChanges /\ UNCHANGED repoLog
     \/ processRequest_phase6 /\ UNCHANGED repoLog
     \/ phase6_callClaudeReport /\ UNCHANGED repoLog
     \/ phase6_saveToRepo
     \/ phase6_createPullRequest
     \/ processRequest_complete /\ UNCHANGED repoLog
     \/ processRequest_catch /\ UNCHANGED repoLog
  /\ UNCHANGED <<askVars, chanVars, waitVars, storeVars, sessionVars, hookVars, devVars,
                 taskVars,
                 scoreVars,
                 variantVars,
                 threadVars,
                 callVars>>

Spec == Init /\ [][Next]_vars

\* every await of the run returns or throws: a run that can take a step takes one
SpecLive == Spec /\ WF_vars(Next)

-----------------------------------------------------------------------------
(* One call of callClaude: the request comment and the polling loop.       *)

\* authors of issue comments: user.login contains 'claude' / 'anthropic', user.type
Authors ==
  {[claude |-> TRUE,  anthropic |-> FALSE, type |-> "Bot"],
   [claude |-> FALSE, anthropic |-> TRUE,  type |-> "Bot"],
   [claude |-> TRUE,  anthropic |-> FALSE, type |-> "User"],
   [claude |-> FALSE, anthropic |-> TRUE,  type |-> "User"],
   [claude |-> FALSE, anthropic |-> FALSE, type |-> "Bot"],
   [claude |-> FALSE, anthropic |-> FALSE, type |-> "User"]}

\* the GitHub App the orchestrator posts as
AppAuthor == [claude |-> FALSE, anthropic |-> FALSE, type |-> "Bot"]

\* a comment as the REST API returns it; the body is unique to the comment
Comment(author, now, n) ==
  [user |-> author, created_at |-> now, updated_at |-> now, body |-> n]

\* c.user.login.includes('claude') || c.user.type === 'Bot' &&
\*   (c.user.login.includes('anthropic') || c.user.login.includes('claude'))
isClaudeBot(c) ==
  c.user.claude \/ (c.user.type = "Bot" /\ (c.user.anthropic \/ c.user.claude))

\* isAfterOurComment with >= for >
isAfterOurComment_orEqual(c, created_at) == c.created_at >= created_at

\* new Date(c.created_at) > new Date(comment.data.created_at)
isAfterOurComment(c, created_at) == c.created_at > created_at

\* octokit.issues.listComments({since}): the comments updated at or after `since`,
\* in creation order
listComments(since) == SelectSeq(comments, LAMBDA c : c.updated_at >= since)

\* the predicate of comments.find: isClaudeBot && isAfterOurComment
isClaudeResponse(c, created_at) == isClaudeBot(c) /\ isAfterOurComment(c, created_at)

\* comments.find(c => ...): index of the first element that satisfies the
\* predicate, 0 for none
find(list, created_at) ==
  IF \E i \in 1..Len(list) : isClaudeResponse(list[i], created_at)
  THEN CHOOSE i \in 1..Len(list) :
         /\ isClaudeResponse(list[i], created_at)
         /\ \A j \in 1..(i - 1) : ~isClaudeResponse(list[j], created_at)
  ELSE 0

\* const comment = await this.octokit.issues.createComment({body: `@claude ...`});
\* let attempts = 0
callClaude_createComment ==
  /\ askPc = "idle"
  /\ comments' = Append(comments, Comment(AppAuthor, clock, Len(comments) + 1))
  /\ t0' = clock
  /\ attempts' = 0
  /\ askPc' = "polling"
  /\ UNCHANGED <<polls, askResult, clock>>

\* callClaude_poll with the budget test off by one: while (attempts <= maxAttempts)
callClaude_poll_offByOne ==
  /\ askPc = "polling"
  /\ attempts <= maxAttempts
  /\ polls' = polls + 1
  /\ LET list == listComments(t0)
         i == find(list, t0)
     IN IF i # 0
        THEN /\ askResult' = list[i].body
             /\ askPc' = "returned"
             /\ UNCHANGED attempts
        ELSE /\ attempts' = attempts + 1
             /\ askPc' = IF attempts + 1 <= maxAttempts THEN "polling" ELSE "timedout"
             /\ UNCHANGED askResult
  /\ UNCHANGED <<comments, t0, clock>>

\* one pass of while (attempts < maxAttempts): the wait, listComments, find; the
\* response's body is returned, or attempts++ and, at the budget, the throw
callClaude_poll ==
  /\ askPc = "polling"
  /\ attempts < maxAttempts
  /\ polls' = polls + 1
  /\ LET list == listComments(t0)
         i == find(list, t0)
     IN IF i # 0
        THEN /\ askResult' = list[i].body
             /\ askPc' = "returned"
             /\ UNCHANGED attempts
        ELSE /\ attempts' = attempts + 1
             /\ askPc' = IF attempts + 1 < maxAttempts THEN "polling" ELSE "timedout"
             /\ UNCHANGED askResult
  /\ UNCHANGED <<comments, t0, clock>>

\* somebody else comments on the issue
otherComment ==
  /\ askPc \in {"idle", "polling"}
  /\ Len(comments) < MaxComments
  /\ \E a \in Authors :
       comments' = Append(comments, Comment(a, clock, Len(comments) + 1))
  /\ UNCHANGED <<askPc, attempts, polls, t0, askResult, clock>>

\* a second passes
tick ==
  /\ askPc \in {"idle", "polling"}
  /\ clock < MaxClock
  /\ clock' = clock + 1
  /\ UNCHANGED <<askPc, attempts, polls, comments, t0, askResult>>

InitAsk == Init /\ branchExists

NextAsk ==
  /\ \/ callClaude_createComment
     \/ callClaude_poll
     \/ otherComment
     \/ tick
  /\ UNCHANGED <<runVars, chanVars, waitVars, storeVars, sessionVars, hookVars, devVars,
                 taskVars,
                 scoreVars,
                 variantVars,
                 threadVars,
                 callVars>>

SpecAsk == InitAsk /\ [][NextAsk]_vars

-----------------------------------------------------------------------------
(* The successive calls of callClaude of one run, on one issue.            *)

\* the account the agent answers with
AgentAuthor == [claude |-> TRUE, anthropic |-> FALSE, type |-> "Bot"]

\* a phase calls callClaude: the request comment is posted
channel_createComment ==
  /\ askNo < MaxAsks
  /\ callClaude_createComment
  /\ askNo' = askNo + 1
  /\ inReplyTo' = Append(inReplyTo, 0)
  /\ UNCHANGED answered

\* one pass of the polling loop of the running call
channel_poll ==
  /\ callClaude_poll
  /\ UNCHANGED chanVars

\* return claudeResponse.body: the call ends and the phase goes on
channel_return ==
  /\ askPc = "returned"
  /\ answered' = Append(answered, askResult)
  /\ askPc' = "idle"
  /\ polls' = 0
  /\ UNCHANGED <<attempts, comments, t0, askResult, clock, askNo, inReplyTo>>

\* the agent writes a comment in answer to one of the requests posted so far: its
\* first answer to it, or a further one
agentReply ==
  /\ askPc \in {"idle", "polling"}
  /\ Cardinality({i \in 1..Len(inReplyTo) : inReplyTo[i] # 0}) < MaxReplies
  /\ \E a \in 1..askNo :
       /\ comments' = Append(comments, Comment(AgentAuthor, clock, Len(comments) + 1))
       /\ inReplyTo' = Append(inReplyTo, a)
  /\ UNCHANGED <<askPc, attempts, polls, t0, askResult, clock, askNo, answered>>

\* a second passes
channel_tick ==
  /\ askPc \in {"idle", "polling"}
  /\ clock < MaxChannelClock
  /\ clock' = clock + 1
  /\ UNCHANGED <<askPc, attempts, polls, comments, t0, askResult, chanVars>>

NextChannel ==
  /\ \/ channel_createComment
     \/ channel_poll
     \/ channel_return
     \/ agentReply
     \/ channel_tick
  /\ UNCHANGED <<runVars, waitVars, storeVars, sessionVars, hookVars, devVars,
                 taskVars,
                 scoreVars,
                 variantVars,
                 threadVars,
                 callVars>>

SpecChannel == InitAsk /\ [][NextChannel]_vars

-----------------------------------------------------------------------------
(* One call of waitForWorkflowCompletion.                                  *)

\* latestRun.status / latestRun.conclusion of runs.workflow_runs[0]; "none" when
\* the list is empty
RunStates == {"none", "queued", "in_progress", "success", "failure", "cancelled"}

\* status === 'completed' with a conclusion other than 'success'
CompletedWithoutSuccess(run) == run \in {"failure", "cancelled"}

\* the dispatch request has been accepted (the run it asks for is created some
\* time later); const startTime = Date.now()
waitForWorkflowCompletion_start ==
  /\ waitPc = "idle"
  /\ waitPc' = "polling"
  /\ elapsed' = 0
  /\ waitPolls' = 0
  /\ failureSeenAt' = 0
  /\ latestIsNew' = FALSE
  /\ UNCHANGED latestRun

\* the status requests that took time so far: each pass that went on to the pause
\* added checkInterval to the time elapsed, each slow request RequestTime
SlowRequests == (elapsed - checkInterval * waitPolls) \div RequestTime

\* a pass whose catch goes on to the next pass without the pause
waitForWorkflowCompletion_poll_noPause ==
  /\ waitPc = "polling"
  /\ elapsed < maxWaitTime
  /\ waitPolls' = waitPolls + 1
  /\ \/ /\ latestRun = "success"
        /\ waitPc' = "returned"
        /\ UNCHANGED <<elapsed, failureSeenAt>>
     \/ /\ CompletedWithoutSuccess(latestRun)
        /\ failureSeenAt' = IF failureSeenAt = 0 THEN waitPolls + 1 ELSE failureSeenAt
        /\ UNCHANGED <<waitPc, elapsed>>
     \/ /\ latestRun \in {"none", "queued", "in_progress"}
        /\ elapsed' = elapsed + checkInterval
        /\ UNCHANGED <<waitPc, failureSeenAt>>
     \/ UNCHANGED <<waitPc, elapsed, failureSeenAt>>
  /\ UNCHANGED <<latestRun, latestIsNew>>

\* one pass of while (Date.now() - startTime < maxWaitTime): the status request
\* inside the try, which takes its time; a successful conclusion returns; the
\* error thrown for any other conclusion, like an error of the request, is caught
\* by the catch of the same try and logged; then the wait of checkInterval
waitForWorkflowCompletion_poll ==
  /\ waitPc = "polling"
  /\ elapsed < maxWaitTime
  /\ waitPolls' = waitPolls + 1
  /\ \E took \in {0, RequestTime} :
       /\ took > 0 => SlowRequests < MaxSlowRequests
       /\ \/ /\ latestRun = "success"
             /\ waitPc' = "returned"
             /\ UNCHANGED <<elapsed, failureSeenAt>>
          \/ /\ CompletedWithoutSuccess(latestRun)
             /\ failureSeenAt' = IF failureSeenAt = 0 THEN waitPolls + 1
                                 ELSE failureSeenAt
             /\ elapsed' = elapsed + took + checkInterval
             /\ UNCHANGED waitPc
          \/ /\ latestRun \in {"none", "queued", "in_progress"}
             /\ elapsed' = elapsed + took + checkInterval
             /\ UNCHANGED <<waitPc, failureSeenAt>>
          \/ /\ elapsed' = elapsed + took + checkInterval  \* the request itself failed
             /\ UNCHANGED <<waitPc, failureSeenAt>>
  /\ UNCHANGED <<latestRun, latestIsNew>>

\* throw new Error(`... workflow did not complete within 30 minutes`)
waitForWorkflowCompletion_timeout ==
  /\ waitPc = "polling"
  /\ elapsed >= maxWaitTime
  /\ waitPc' = "thrown"
  /\ UNCHANGED <<elapsed, waitPolls, latestRun, failureSeenAt, latestIsNew>>

\* the workflow run makes progress, or a new run of the workflow is created on
\* the branch (a dispatch, a re-run of failed jobs)
workflowRun ==
  /\ waitPc \in {"idle", "polling"}
  /\ \/ /\ latestRun \in {"none", "success", "failure", "cancelled"}
        /\ latestRun' = "queued"
        /\ latestIsNew' = (waitPc = "polling")
     \/ /\ latestRun = "queued"
        /\ latestRun' \in {"in_progress", "cancelled"}
        /\ UNCHANGED latestIsNew
     \/ /\ latestRun = "in_progress"
        /\ latestRun' \in {"success", "failure", "cancelled"}
        /\ UNCHANGED latestIsNew
  /\ UNCHANGED <<waitPc, elapsed, waitPolls, failureSeenAt>>

NextWait ==
  /\ \/ waitForWorkflowCompletion_start
     \/ waitForWorkflowCompletion_poll
     \/ waitForWorkflowCompletion_timeout
     \/ workflowRun
  /\ UNCHANGED <<runVars, askVars, chanVars, storeVars, sessionVars, hookVars, devVars,
                 taskVars,
                 scoreVars,
                 variantVars,
                 threadVars,
                 callVars>>

SpecWait == InitAsk /\ [][NextWait]_vars

-----------------------------------------------------------------------------
(* saveToRepo and createBranch against the repository.                     *)

\* contents another writer puts at the path, and the content saveToRepo writes
Contents == {"a", "b"}
OurContent == "ours"

\* data.sha of the contents API: the blob SHA of the file, a function of its content
Sha(content) == <<"sha", content>>

\* let sha; try { data = GET contents/{path}?ref=projectBranch; sha = data.sha }
\* catch (e) { /* file doesn't exist */ }
\* The catch swallows every error of the GET, not only 'not found': a request
\* that fails while the file exists leaves sha unassigned as well.
saveToRepo_get ==
  /\ savePc = "idle"
  /\ \/ sha' = IF branchRef # 0 /\ file # "none" THEN Sha(file) ELSE NoSha
     \/ /\ branchRef # 0                 \* the request failed (5xx, rate limit)
        /\ file # "none"
        /\ sha' = NoSha
  /\ readFile' = IF branchRef # 0 THEN file ELSE "none"
  /\ changes' = 0
  /\ savePc' = "read"
  /\ UNCHANGED <<file, putOutcome, overwritten, branchRef, mainSha, branchLog>>

\* PUT contents/{path} {branch: projectBranch, ...(sha && {sha})}: the repository
\* creates the file when there is none, replaces it when the sha given is the blob
\* SHA of the file at the path, and rejects the request otherwise (no such branch;
\* sha missing or not matching); catch (error) { throw error }
saveToRepo_put ==
  /\ savePc = "read"
  /\ IF branchRef = 0
     THEN /\ putOutcome' = "no-branch"
          /\ savePc' = "raised"
          /\ UNCHANGED <<file, overwritten>>
     ELSE IF file = "none" /\ sha = NoSha
     THEN /\ putOutcome' = "created"
          /\ file' = OurContent
          /\ overwritten' = "none"
          /\ savePc' = "done"
     ELSE IF file # "none" /\ sha = Sha(file)
     THEN /\ putOutcome' = "updated"
          /\ file' = OurContent
          /\ overwritten' = file
          /\ savePc' = "done"
     ELSE /\ putOutcome' = "conflict"
          /\ savePc' = "raised"
          /\ UNCHANGED <<file, overwritten>>
  /\ UNCHANGED <<sha, readFile, changes, branchRef, mainSha, branchLog>>

\* another writer creates or changes the file at the same path of the branch
otherWriter ==
  /\ branchRef # 0
  /\ savePc \in {"idle", "read"}
  /\ changes < MaxOtherWrites
  /\ file' \in Contents \ {file}
  /\ changes' = changes + 1
  /\ UNCHANGED <<savePc, sha, readFile, putOutcome, overwritten, branchRef, mainSha,
                 branchLog>>

\* a createBranch call: the status of its last response (201: the branch was made),
\* whether the call threw, and the branch before and after
BranchCall(status, thrown, after) ==
  [status |-> status, thrown |-> thrown, main |-> mainSha,
   before |-> branchRef, after |-> after]

\* createBranch whose catch swallows every error
createBranch_swallowsAll ==
  /\ Len(branchLog) < MaxCreateCalls
  /\ \/ \E status \in {404, 500} :
          /\ branchLog' = Append(branchLog, BranchCall(status, FALSE, branchRef))
          /\ UNCHANGED branchRef
     \/ /\ branchRef # 0
        /\ branchLog' = Append(branchLog, BranchCall(422, FALSE, branchRef))
        /\ UNCHANGED branchRef
     \/ /\ branchRef = 0
        /\ branchRef' = mainSha
        /\ branchLog' = Append(branchLog, BranchCall(201, FALSE, mainSha))
  /\ UNCHANGED <<savePc, sha, file, readFile, changes, putOutcome, overwritten, mainSha>>

\* createBranch(branchName): GET git/ref/heads/main, then POST git/refs with that
\* commit; catch (error) { if (error.status === 422) { /* exists */ } else throw error }
createBranch ==
  /\ Len(branchLog) < MaxCreateCalls
  /\ \/ \E status \in {404, 500} :                   \* one of the requests fails
          /\ branchLog' = Append(branchLog, BranchCall(status, TRUE, branchRef))
          /\ UNCHANGED branchRef
     \/ /\ branchRef # 0                             \* 422: the reference exists
        /\ branchLog' = Append(branchLog, BranchCall(422, FALSE, branchRef))
        /\ UNCHANGED branchRef
     \/ /\ branchRef = 0
        /\ branchRef' = mainSha
        /\ branchLog' = Append(branchLog, BranchCall(201, FALSE, mainSha))
  /\ UNCHANGED <<savePc, sha, file, readFile, changes, putOutcome, overwritten, mainSha>>

\* somebody pushes a commit to main
pushMain ==
  /\ mainSha <= MaxMainCommits
  /\ mainSha' = mainSha + 1
  /\ UNCHANGED <<savePc, sha, file, readFile, changes, putOutcome, overwritten,
                 branchRef, branchLog>>

NextStore ==
  /\ \/ saveToRepo_get
     \/ saveToRepo_put
     \/ otherWriter
     \/ createBranch
     \/ pushMain
  /\ UNCHANGED <<runVars, askVars, chanVars, waitVars, sessionVars, hookVars, devVars,
                 taskVars,
                 scoreVars,
                 variantVars,
                 threadVars,
                 callVars>>

SpecStore == InitAsk /\ [][NextStore]_vars

-----------------------------------------------------------------------------
(* The sessions: one orchestrator per 'issues.opened' event delivered.     *)

\* payload.issue.number of the events (an event may be delivered again)
IssueNumbers == {4, 24, 42, 142}

RECURSIVE Digits(_)
\* ${issueNumber}: the decimal digits of a positive integer, most significant first
Digits(n) == IF n < 10 THEN <<n>> ELSE Digits(n \div 10) \o <<n % 10>>

\* the constructor with the number of the run appended to the name
constructor_numbersTheRun(issueNumber) ==
  [issueNumber |-> issueNumber,
   projectBranch |-> <<"project-">> \o Digits(issueNumber)
                       \o Digits(Len(sessions) + 1),
   refs |-> <<>>]

\* this.issueNumber = issueNumber; this.projectBranch = `project-${issueNumber}`
constructor(issueNumber) ==
  [issueNumber |-> issueNumber,
   projectBranch |-> <<"project-">> \o Digits(issueNumber),
   refs |-> <<>>]

\* webhooks.on('issues.opened'): new MCPLiteOrchestrator(..., payload.issue.number)
issuesOpened ==
  /\ Len(sessions) < MaxSessions
  /\ \E n \in IssueNumbers : sessions' = Append(sessions, constructor(n))
  /\ UNCHANGED <<runVars, askVars, chanVars, waitVars, storeVars, hookVars, devVars,
                 taskVars,
                 scoreVars,
                 variantVars,
                 threadVars,
                 callVars>>

\* a request of the run that names the branch: createBranch(this.projectBranch),
\* branch: this.projectBranch of saveToRepo, ref: this.projectBranch of a dispatch
requestOnBranch ==
  /\ \E i \in 1..Len(sessions) :
       /\ Len(sessions[i].refs) < MaxRequests
       /\ sessions' = [sessions EXCEPT
                         ![i].refs = Append(@, sessions[i].projectBranch)]
  /\ UNCHANGED <<runVars, askVars, chanVars, waitVars, storeVars, hookVars, devVars,
                 taskVars,
                 scoreVars,
                 variantVars,
                 threadVars,
                 callVars>>

NextSession ==
  \/ issuesOpened
  \/ requestOnBranch

SpecSession == InitAsk /\ [][NextSession]_vars

-----------------------------------------------------------------------------
(* The webhook handlers of initializeApp and the runs they start.          *)

\* payload.issue.body of issue n
Body(n) == <<"requirements of", n>>

\* the comment bodies told apart: body.includes('APPROVED'), a restart / retry
\* command, anything else
CommentKinds == {"APPROVED", "restart", "other"}

\* the phases of processRequest in order, and the end of the try block
PhaseOrder == <<"Planning", "Researching", "DevPlanning", "Developing", "Verifying",
                "Reporting", "Completed">>

PhaseNo(state) == CHOOSE k \in 1..Len(PhaseOrder) : PhaseOrder[k] = state

Running(run) == run.state \notin {"Completed", "Failed"}

\* the runs of issue n
RunsOf(n) == {r \in 1..Len(runs) : runs[r].issueNumber = n}

\* new orchestratorClass(octokit, owner, repo, issueNumber).processRequest(body):
\* the run begins with phase 1 and the locals of phase1_createPlan
NewRun(n, body, event) ==
  [issueNumber |-> n, requirements |-> body, state |-> "Planning", iteration |-> 0,
   plan |-> 0, startedBy |-> event]

\* the event as the handler received it
HookEvent(n, kind) == [issueNumber |-> n, kind |-> kind]

\* payload.issue.body of an issue opened without a description
NullBody == <<"null">>

\* the bodies an issues.opened event of issue n may carry
Bodies(n) == {Body(n), NullBody}

\* payload.issue.body || ''
OrEmptyText(body) == IF body = NullBody THEN <<>> ELSE body

\* the handler without the label check
issues_opened_withoutLabelCheck ==
  \E n \in HookIssues, labelled \in BOOLEAN : \E body \in Bodies(n) :
    /\ Len(runs) < MaxRuns
    /\ runs' = Append(runs, NewRun(n, OrEmptyText(body), "issues.opened"))
    /\ lastEvent' = HookEvent(n, IF labelled THEN "issues.opened" ELSE "unlabelled")
    /\ UNCHANGED <<branches, records>>

\* webhooks.on('issues.opened'): return without the claude-build label; otherwise
\* new orchestratorClass(..., payload.issue.number)
\*   .processRequest(payload.issue.body || '')
issues_opened ==
  \E n \in HookIssues, labelled \in BOOLEAN : \E body \in Bodies(n) :
    IF labelled
    THEN /\ Len(runs) < MaxRuns
         /\ runs' = Append(runs, NewRun(n, OrEmptyText(body), "issues.opened"))
         /\ lastEvent' = HookEvent(n, "issues.opened")
         /\ UNCHANGED <<branches, records>>
    ELSE /\ lastEvent' = HookEvent(n, "unlabelled")
         /\ UNCHANGED <<runs, branches, records>>

\* the handler with the restart branch of the README, taken for an approval too:
\* the comment starts processRequest(payload.issue.body) on a new orchestrator
issue_comment_created_startsRun ==
  /\ \E n \in HookIssues, body \in CommentKinds :
       IF body \in {"APPROVED", "restart"} /\ Len(runs) < MaxRuns
       THEN /\ runs' = Append(runs, NewRun(n, OrEmptyText(Body(n)), body))
            /\ lastEvent' = HookEvent(n, body)
       ELSE /\ lastEvent' = HookEvent(n, body)
            /\ UNCHANGED runs
  /\ UNCHANGED <<branches, records>>

\* webhooks.on('issue_comment.created'): if (payload.comment.body.includes('APPROVED'))
\* POST issues/{issue_number}/comments '... Project completed successfully!';
\* no other comment has an effect
issue_comment_created ==
  /\ \E n \in HookIssues, body \in CommentKinds : lastEvent' = HookEvent(n, body)
  /\ UNCHANGED <<runs, branches, records>>

\* the acknowledgement the handler posted for the event
Acknowledged(event) == event.kind = "APPROVED"

\* one pass of the plan loop of run r: let iteration = 0; ...
\* saveToRepo(`plans/iteration-${iteration}.json`, currentPlan, ...); iteration++
\* (the write fails, and with it the run, when the branch does not exist)
phase1_createPlan_pass(r) ==
  /\ runs[r].state = "Planning"
  /\ runs[r].iteration < MaxPlanRecords
  /\ IF runs[r].issueNumber \in branches
     THEN /\ records' = [records EXCEPT
                           ![<<runs[r].issueNumber, runs[r].iteration>>] = @ \cup {r}]
          /\ runs' = [runs EXCEPT ![r].iteration = @ + 1]
     ELSE /\ runs' = [runs EXCEPT ![r].state = "Failed", ![r].iteration = 0]
          /\ UNCHANGED records
  /\ UNCHANGED <<branches, lastEvent>>

\* the run goes on to its next phase: the plan loop has made a pass at least
\* (planQuality starts at 0), phase 4 begins with createBranch(this.projectBranch)
processRequest_nextPhase(r) ==
  /\ Running(runs[r])
  /\ runs[r].state = "Planning" => runs[r].iteration > 0
  /\ LET next == PhaseOrder[PhaseNo(runs[r].state) + 1] IN
       /\ runs' = [runs EXCEPT ![r].state = next,
                               ![r].iteration = 0,
                               ![r].plan = IF runs[r].state = "Planning" THEN r ELSE @]
       /\ branches' = IF next = "Developing"
                      THEN branches \cup {runs[r].issueNumber} ELSE branches
  /\ UNCHANGED <<records, lastEvent>>

\* catch (error) of processRequest: an error of the phase ends the run
processRequest_fails(r) ==
  /\ Running(runs[r])
  /\ runs' = [runs EXCEPT ![r].state = "Failed", ![r].iteration = 0]
  /\ UNCHANGED <<branches, records, lastEvent>>

\* the branch of issue n exists before any run reaches phase 4 (somebody pushed it)
branchPushed ==
  /\ \E n \in HookIssues \ branches : branches' = branches \cup {n}
  /\ UNCHANGED <<runs, records, lastEvent>>

NextHooks ==
  /\ \/ issues_opened
     \/ issue_comment_created
     \/ \E r \in 1..Len(runs) : phase1_createPlan_pass(r)
     \/ \E r \in 1..Len(runs) : processRequest_nextPhase(r)
     \/ \E r \in 1..Len(runs) : processRequest_fails(r)
     \/ branchPushed
  /\ UNCHANGED <<runVars, askVars, chanVars, waitVars, storeVars, sessionVars, devVars,
                 taskVars,
                 scoreVars,
                 variantVars,
                 threadVars,
                 callVars>>

SpecHooks == InitAsk /\ [][NextHooks]_vars

-----------------------------------------------------------------------------
(* The development dp with its dependencies, from phase 3 to phase 4.    *)

\* component names a plan may declare, and a name no plan declares
ComponentNames == {"frontend", "backend", "database"}
Undeclared == "cache"

\* the dependencies of one component: none, or one name
DependencyLists == {{}} \cup {{name} : name \in ComponentNames \cup {Undeclared}}

\* a component of devPlan.components: {name, dependencies}
Component(name, dependencies) == [name |-> name, dependencies |-> dependencies]

RECURSIVE PlansOf(_)
\* the plans of k components with distinct names
PlansOf(k) ==
  IF k = 0 THEN {<<>>}
  ELSE {Append(dp, Component(name, deps)) :
          dp \in PlansOf(k - 1),
          name \in ComponentNames,
          deps \in DependencyLists}

DevPlans ==
  {dp \in UNION {PlansOf(k) : k \in 0..MaxPlanComponents} :
     \A i, j \in 1..Len(dp) : i # j => dp[i].name # dp[j].name}

\* return JSON.parse(devPlan): phase 3 returns whatever plan the agent wrote
phase3_createDevPlan_return ==
  /\ devPc = "phase3"
  /\ \E dp \in DevPlans : components' = dp
  /\ devPc' = "phase4"
  /\ UNCHANGED <<dispatched, implemented>>

\* phase4_development: createBranch, saveToRepo('plans/development-dp.json'),
\* then the dispatch with inputs.components = JSON.stringify(devPlan.components || [])
\* or, when the dispatch fails, the catch with its loop over the components
phase4_development_dispatch ==
  /\ devPc = "phase4"
  /\ \/ /\ dispatched' = components
        /\ devPc' = "done"
     \/ /\ devPc' = "sequential"
        /\ UNCHANGED dispatched
  /\ UNCHANGED <<components, implemented>>

\* for (const component of devPlan.components || []): callClaudeWithFiles(devPrompt),
\* commitChanges(`Implement ${component.name} component`)
phase4_development_component ==
  /\ devPc = "sequential"
  /\ IF Len(implemented) < Len(components)
     THEN /\ implemented' = Append(implemented, components[Len(implemented) + 1].name)
          /\ UNCHANGED devPc
     ELSE /\ devPc' = "done"
          /\ UNCHANGED implemented
  /\ UNCHANGED <<components, dispatched>>

NextDev ==
  /\ \/ phase3_createDevPlan_return
     \/ phase4_development_dispatch
     \/ phase4_development_component
  /\ UNCHANGED <<runVars, askVars, chanVars, waitVars, storeVars, sessionVars, hookVars,
                 taskVars,
                 scoreVars,
                 variantVars,
                 threadVars,
                 callVars>>

SpecDev == InitAsk /\ [][NextDev]_vars

-----------------------------------------------------------------------------
(* Sessions of distinct issues running side by side.                       *)

\* a reply of the agent, posted as a comment of issue n
Reply(n) == <<"reply on issue", n>>

\* the issues that have a session
TaskIssuesTaken == {tasks[i].issueNumber : i \in 1..Len(tasks)}

\* webhooks.on('issues.opened') for an issue without a session: the orchestrator is
\* constructed and processRequest begins
task_start ==
  /\ Len(tasks) < MaxTasks
  /\ \E n \in TaskIssues \ TaskIssuesTaken :
       tasks' = Append(tasks, [issueNumber |-> constructor(n).issueNumber,
                               projectBranch |-> constructor(n).projectBranch,
                               pc |-> "idle", polls |-> 0, result |-> <<>>])
  /\ UNCHANGED <<channel, lastRequest>>

\* updateIssue(message): POST issues/{issue_number}/comments, this.issueNumber
task_updateIssue(i) ==
  /\ tasks[i].pc \in {"idle", "returned"}
  /\ lastRequest' = [by |-> i, kind |-> "comment",
                     issue_number |-> tasks[i].issueNumber, branch |-> <<>>]
  /\ UNCHANGED <<tasks, channel>>

\* saveToRepo: GET and PUT contents/{path} with ref / branch this.projectBranch
task_saveToRepo(i) ==
  /\ tasks[i].pc \in {"idle", "returned"}
  /\ lastRequest' = [by |-> i, kind |-> "contents",
                     issue_number |-> 0, branch |-> tasks[i].projectBranch]
  /\ UNCHANGED <<tasks, channel>>

\* the workflow dispatches: ref this.projectBranch, inputs.issue_number
\* String(this.issueNumber)
task_dispatch(i) ==
  /\ tasks[i].pc \in {"idle", "returned"}
  /\ lastRequest' = [by |-> i, kind |-> "dispatch",
                     issue_number |-> tasks[i].issueNumber,
                     branch |-> tasks[i].projectBranch]
  /\ UNCHANGED <<tasks, channel>>

\* callClaude: createComment({issue_number: this.issueNumber, body: `@claude ...`})
task_callClaude(i) ==
  /\ tasks[i].pc = "idle"
  /\ tasks' = [tasks EXCEPT ![i].pc = "polling", ![i].polls = 0]
  /\ lastRequest' = [by |-> i, kind |-> "comment",
                     issue_number |-> tasks[i].issueNumber, branch |-> <<>>]
  /\ UNCHANGED channel

\* a poll that lists the agent replies of every issue of the repository
task_poll_allIssues(i) ==
  /\ tasks[i].pc = "polling"
  /\ LET found == UNION {channel[n] : n \in TaskIssues} IN
       IF found # {}
       THEN \E reply \in found :
              tasks' = [tasks EXCEPT ![i].pc = "returned", ![i].result = reply]
       ELSE tasks' = [tasks EXCEPT
                        ![i].polls = @ + 1,
                        ![i].pc = IF tasks[i].polls + 1 < MaxTaskPolls
                                  THEN "polling" ELSE "failed"]
  /\ lastRequest' = [by |-> i, kind |-> "listComments",
                     issue_number |-> tasks[i].issueNumber, branch |-> <<>>]
  /\ UNCHANGED channel

\* one poll of callClaude: await setTimeout; listComments({issue_number:
\* this.issueNumber, since}); return the reply found, or count the attempt and, the
\* budget used up, throw
task_poll(i) ==
  /\ tasks[i].pc = "polling"
  /\ LET found == channel[tasks[i].issueNumber] IN
       IF found # {}
       THEN \E reply \in found :
              tasks' = [tasks EXCEPT ![i].pc = "returned", ![i].result = reply]
       ELSE tasks' = [tasks EXCEPT
                        ![i].polls = @ + 1,
                        ![i].pc = IF tasks[i].polls + 1 < MaxTaskPolls
                                  THEN "polling" ELSE "failed"]
  /\ lastRequest' = [by |-> i, kind |-> "listComments",
                     issue_number |-> tasks[i].issueNumber, branch |-> <<>>]
  /\ UNCHANGED channel

\* the agent answers on issue n
task_agentReply ==
  /\ \E n \in TaskIssuesTaken : channel' = [channel EXCEPT ![n] = @ \cup {Reply(n)}]
  /\ UNCHANGED <<tasks, lastRequest>>

NextTasks ==
  /\ \/ task_start
     \/ \E i \in 1..Len(tasks) : task_updateIssue(i)
     \/ \E i \in 1..Len(tasks) : task_saveToRepo(i)
     \/ \E i \in 1..Len(tasks) : task_dispatch(i)
     \/ \E i \in 1..Len(tasks) : task_callClaude(i)
     \/ \E i \in 1..Len(tasks) : task_poll(i)
     \/ task_agentReply
  /\ UNCHANGED <<runVars, askVars, chanVars, waitVars, storeVars, sessionVars, hookVars,
                 devVars,
                 scoreVars,
                 variantVars,
                 threadVars,
                 callVars>>

SpecTasks == InitAsk /\ [][NextTasks]_vars

-----------------------------------------------------------------------------
(* One iteration of a quality gate: the scores as the code uses them.      *)

\* numbers a verifier may write as its score
ReportedNumbers == {0 - 5, 0, 40, 95, 96, 100, 150}

\* what JSON.parse(reply).score is for a reply that carries a number
ReportedScores == {Num(s) : s \in ReportedNumbers}

\* const result = JSON.parse(verification) of the gates of phases 1, 2 and 3
gate_parse ==
  /\ scorePc = "verify"
  /\ \E k \in {1, 2, 3}, v \in ReportedScores :
       /\ scoreGate' = k
       /\ scoreResults' = <<[score |-> v]>>
  /\ scorePc' = "parsed"
  /\ UNCHANGED scoreCompared

\* planQuality = result.score || 0 (researchQuality in phase 2)
gate_assign ==
  /\ scorePc = "parsed"
  /\ scoreGate \in {1, 2, 3}
  /\ scoreCompared' = OrZero(scoreResults[1].score)
  /\ scorePc' = "compared"
  /\ UNCHANGED <<scoreGate, scoreResults>>

\* phase 5: verificationResults.push(JSON.parse(result)) for each of the verifiers
phase5_push ==
  /\ scorePc = "verify"
  /\ \E r \in [1..Len(verifiers) -> ReportedScores] :
       scoreResults' = [i \in 1..Len(verifiers) |-> [score |-> r[i]]]
  /\ scoreGate' = 5
  /\ scorePc' = "parsed"
  /\ UNCHANGED scoreCompared

\* overallQuality = verificationResults.reduce((acc, v) => acc + v.score, 0)
\*                    / verificationResults.length
phase5_reduce ==
  /\ scorePc = "parsed"
  /\ scoreGate = 5
  /\ scoreCompared' = Div(SumScores(scoreResults, Num(0)), Len(scoreResults))
  /\ scorePc' = "compared"
  /\ UNCHANGED <<scoreGate, scoreResults>>

NextScore ==
  /\ \/ gate_parse
     \/ gate_assign
     \/ phase5_push
     \/ phase5_reduce
  /\ UNCHANGED <<runVars, askVars, chanVars, waitVars, storeVars, sessionVars, hookVars,
                 devVars, taskVars,
                 variantVars,
                 threadVars,
                 callVars>>

SpecScore == InitAsk /\ [][NextScore]_vars

-----------------------------------------------------------------------------
(* Phase 2 of the two orchestrators, with no job runner, on the same agent *)
(* replies.                                                                *)

\* the request comment of a callClaude: who is addressed and about what
Request(role, subject) == <<role, subject>>

\* the agent: one plan, and the reply to each verification request, by iteration
agent_script ==
  /\ ~agentScript.chosen
  /\ \E h \in BOOLEAN, v \in [1..ResearchIterations -> ScriptReplies] :
       agentScript' = [chosen |-> TRUE, hasResearchers |-> h, verify |-> v]
  /\ UNCHANGED <<fallbackRun, sequentialRun>>

\* one pass of for (const researcher of plan.researchers || [...]): callClaude,
\* researchResults[researcher] = JSON.parse(result); `next` follows the loop
ResearchPass(run, next) ==
  LET researchers == Researchers(agentScript) IN
  IF run.idx <= Len(researchers)
  THEN LET request == Request(researchers[run.idx], "research") IN
       [run EXCEPT !.requests = Append(@, request),
                   !.results[researchers[run.idx]] = request,
                   !.idx = @ + 1]
  ELSE [run EXCEPT !.pc = next]

\* orchestrator.js, phase2_research: the dispatch is refused, the catch begins
\* with const researchResults = {}
fallback_catch ==
  /\ agentScript.chosen
  /\ fallbackRun.pc = "start"
  /\ fallbackRun' = [fallbackRun EXCEPT !.pc = "research"]
  /\ UNCHANGED <<agentScript, sequentialRun>>

\* the loop of the catch, and return researchResults right after it
fallback_research ==
  /\ fallbackRun.pc = "research"
  /\ fallbackRun' = ResearchPass(fallbackRun, "returned")
  /\ UNCHANGED <<agentScript, sequentialRun>>

\* part_001, phase2_research: const researchResults = {} and the loop over the
\* researchers, followed by the verification loop
sequential_research ==
  /\ agentScript.chosen
  /\ sequentialRun.pc \in {"start", "research"}
  /\ sequentialRun' = ResearchPass([sequentialRun EXCEPT !.pc = "research"], "loop")
  /\ UNCHANGED <<agentScript, fallbackRun>>

\* while (researchQuality < 95 && iteration < 3) ... return researchResults
sequential_loop ==
  /\ sequentialRun.pc = "loop"
  /\ sequentialRun' =
       [sequentialRun EXCEPT
          !.pc = IF LessThan(sequentialRun.quality, Threshold)
                    /\ sequentialRun.iteration < ResearchIterations
                 THEN "verify" ELSE "returned"]
  /\ UNCHANGED <<agentScript, fallbackRun>>

\* verification = await this.callClaude(verifyPrompt); try { result = JSON.parse;
\* researchQuality = result.score || 0; if (researchQuality < 95 &&
\* result.improvements) ... } catch (e) { researchQuality = 0 }; iteration++
sequential_verify ==
  /\ sequentialRun.pc = "verify"
  /\ LET r == agentScript.verify[sequentialRun.iteration + 1]
         q == IF r.json THEN OrZero(r.score) ELSE Num(0)
         asked == [sequentialRun EXCEPT
                     !.requests = Append(@, Request("verification-coordinator",
                                                    "research")),
                     !.quality = q]
     IN
     sequentialRun' =
       IF r.json /\ LessThan(q, Threshold) /\ r.hasImprovements
       THEN [asked EXCEPT !.pc = "improve", !.improvements = r.list]
       ELSE [asked EXCEPT !.pc = "loop", !.iteration = @ + 1]
  /\ UNCHANGED <<agentScript, fallbackRun>>

\* for (const improvement of result.improvements): researchResults[
\* improvement.researcher] = JSON.parse(await this.callClaude(improvePrompt))
sequential_improve ==
  /\ sequentialRun.pc = "improve"
  /\ sequentialRun' =
       IF sequentialRun.improvements # <<>>
       THEN LET name == Head(sequentialRun.improvements)
                request == Request(name, "improve") IN
            [sequentialRun EXCEPT !.requests = Append(@, request),
                                  !.results[name] = request,
                                  !.improvements = Tail(@)]
       ELSE [sequentialRun EXCEPT !.pc = "loop", !.iteration = @ + 1]
  /\ UNCHANGED <<agentScript, fallbackRun>>

NextVariants ==
  /\ \/ agent_script
     \/ fallback_catch
     \/ fallback_research
     \/ sequential_research
     \/ sequential_loop
     \/ sequential_verify
     \/ sequential_improve
  /\ UNCHANGED <<runVars, askVars, chanVars, waitVars, storeVars, sessionVars, hookVars,
                 devVars, taskVars, scoreVars,
                 threadVars,
                 callVars>>

SpecVariants == InitAsk /\ [][NextVariants]_vars

-----------------------------------------------------------------------------
(* The comments of an issue and the events they come back as.              *)

\* a comment: who wrote it, what it is, whether its body includes 'APPROVED', and
\* for an acknowledgement the number of the comment that was acknowledged
ThreadComment(author, kind, approved, of) ==
  [author |-> author, kind |-> kind, approved |-> approved, of |-> of]

\* the comments a run posts: updateIssue with a status or `Error: ${error.message}`
\* (fixed texts), and the request of callClaude, `@claude ${prompt}`, whose prompt
\* quotes the requirements, the plan or a reply, which may include the word
AppComments ==
  {ThreadComment("app", "status", FALSE, 0),
   ThreadComment("app", "error notice", FALSE, 0),
   ThreadComment("app", "agent request", FALSE, 0),
   ThreadComment("app", "agent request", TRUE, 0)}

\* the comments of users: an approval, or anything else
UserComments ==
  {ThreadComment("user", "approval", TRUE, 0),
   ThreadComment("user", "other", FALSE, 0)}

\* a user writes a comment
user_createComment ==
  /\ Len(thread) < MaxThread
  /\ \E c \in UserComments : thread' = Append(thread, c)
  /\ UNCHANGED handled

\* a run writes a comment: updateIssue, or createComment of callClaude
run_createComment ==
  /\ Len(thread) < MaxThread
  /\ \E c \in AppComments : thread' = Append(thread, c)
  /\ UNCHANGED handled

\* webhooks.on('issue_comment.created') for the next comment of the issue:
\* if (payload.comment.body.includes('APPROVED')) POST .../comments
\* 'Project completed successfully!'
thread_issue_comment_created ==
  /\ handled < Len(thread)
  /\ handled' = handled + 1
  /\ thread' = IF thread[handled + 1].approved
               THEN Append(thread, ThreadComment("app", "acknowledgement", FALSE,
                                                 handled + 1))
               ELSE thread

NextThread ==
  /\ \/ user_createComment
     \/ run_createComment
     \/ thread_issue_comment_created
  /\ UNCHANGED <<runVars, askVars, chanVars, waitVars, storeVars, sessionVars, hookVars,
                 devVars, taskVars, scoreVars, variantVars,
                 callVars>>

SpecThread == InitAsk /\ [][NextThread]_vars

-----------------------------------------------------------------------------
(* One call of processRequest and the entry point that made it.            *)

\* the entry points of the repository that call processRequest
Callers == {"webhooks.on", "handleIssueOpened", "processIssue"}

\* error.message of what a phase throws
CallErrors == {"Timeout waiting for Claude response", "Unexpected token", "Not Found"}

\* a comment on the issue: who posted it and what it says
Notice(from, tag, msg) == [from |-> from, tag |-> tag, msg |-> msg]

\* the entry point is called for a labelled issue and calls processRequest, which
\* begins with updateIssue('MCP-LITE V2.5 Starting...')
call_start ==
  /\ callPc = "idle"
  /\ \E c \in Callers : caller' = c
  /\ callPc' = "running"
  /\ notices' = Append(notices, Notice("processRequest", "status", "Starting"))
  /\ UNCHANGED <<callPhase, callError>>

\* processRequest announces its next phase: updateIssue('Phase N: ...')
call_nextPhase ==
  /\ callPc = "running"
  /\ callPhase < 6
  /\ callPhase' = callPhase + 1
  /\ notices' = Append(notices, Notice("processRequest", "status", "Phase"))
  /\ UNCHANGED <<caller, callPc, callError>>

\* the phase throws
call_phaseThrows ==
  /\ callPc = "running"
  /\ callPhase > 0
  /\ \E msg \in CallErrors : callError' = msg
  /\ callPc' = "catch"
  /\ UNCHANGED <<caller, callPhase, notices>>

\* phase 6 has returned: updateIssue('Project completed successfully!')
call_complete ==
  /\ callPc = "running"
  /\ callPhase = 6
  /\ notices' = Append(notices, Notice("processRequest", "completed", "none"))
  /\ callPc' = "returned"
  /\ UNCHANGED <<caller, callPhase, callError>>

\* catch (error) { await this.updateIssue(`Error: ${error.message}`); throw error }
call_catch ==
  /\ callPc = "catch"
  /\ notices' = Append(notices, Notice("processRequest", "error", callError))
  /\ callPc' = "rethrown"
  /\ UNCHANGED <<caller, callPhase, callError>>

\* the entry point gets the error processRequest has thrown again:
\* webhooks.on('issues.opened') awaits the call without a catch of its own;
\* handleIssueOpened: .catch(error => POST comments `Error processing request: ...`);
\* processIssue: catch (error) { POST comments `Error processing request: ...` }
caller_catch ==
  /\ callPc = "rethrown"
  /\ notices' = IF caller = "webhooks.on" THEN notices
                ELSE Append(notices, Notice(caller, "error", callError))
  /\ callPc' = "done"
  /\ UNCHANGED <<caller, callPhase, callError>>

\* processRequest has returned to the entry point
caller_returns ==
  /\ callPc = "returned"
  /\ callPc' = "done"
  /\ UNCHANGED <<caller, callPhase, callError, notices>>

NextCall ==
  /\ \/ call_start
     \/ call_nextPhase
     \/ call_phaseThrows
     \/ call_complete
     \/ call_catch
     \/ caller_catch
     \/ caller_returns
  /\ UNCHANGED <<runVars, askVars, chanVars, waitVars, storeVars, sessionVars, hookVars,
                 devVars, taskVars, scoreVars, variantVars, threadVars>>

SpecCall == InitAsk /\ [][NextCall]_vars

-----------------------------------------------------------------------------
(* Properties of one run of processRequest (checked under Spec).           *)

\* v is a number at or above k
AtLeast(v, k) == v.t = "number" /\ v.n >= k * v.d

Last(log) == log[Len(log)]

Throws == {j \in 1..Len(phaseLog) : phaseLog[j].ev = "throw"}

\* C1: the six phases begin in the order 1..6, each one right after the previous
\* one returned (so none begins after an error and none begins twice), and the
\* completion comment is posted only after phase 6 has returned.
C1_PhasesInOrder ==
  LET begins == SelectSeq(phaseLog, LAMBDA e : e.ev = "begin") IN
  /\ \A i \in 1..Len(begins) : begins[i].ph = i
  /\ \A j \in 1..Len(phaseLog) :
       phaseLog[j].ev = "begin" =>
         IF phaseLog[j].ph = 1 THEN j = 1
         ELSE j > 1 /\ phaseLog[j - 1] = Event("return", phaseLog[j].ph - 1, "", "")
  /\ Status("completed") \in issueComments =>
       \E j \in 1..Len(phaseLog) : phaseLog[j] = Event("return", 6, "", "")

\* a run went through all six phases and posted the completion comment
C1_Witness == pc = "done" /\ Len(phaseLog) = 12

\* C2: once a phase call has thrown, the run goes to Failed: the throw is the last
\* phase event (no later phase begins, the failed phase is not called again), the
\* completion comment is never posted, and the error comment that is posted
\* carries the message of the thrown error and nothing else.
C2_ErrorFailsTheRun ==
  /\ \A j \in Throws : j = Len(phaseLog) /\ pc \in {"catch", "failed"}
  /\ pc \in {"catch", "failed"} =>
       /\ Throws # {}
       /\ Status("completed") \notin issueComments
  /\ pc = "catch" => ENABLED processRequest_catch
  /\ pc = "failed" =>
       [tag |-> "error", msg |-> Last(phaseLog).msg] \in issueComments
  /\ \A c \in issueComments :
       c.tag = "error" => pc = "failed" /\ c.msg = Last(phaseLog).msg

\* the development-plan phase timed out and the run reported it
C2_Witness ==
  /\ pc = "failed"
  /\ Last(phaseLog) = Event("throw", 3, "timeout", "p3_verify")
  /\ [tag |-> "error", msg |-> "timeout"] \in issueComments

\* C3: a gated phase with budget N verifies at most N times and produces (the
\* initial candidate and every improvement) at most N times, and a phase that
\* returns has a candidate.
C3_AtMostNCycles ==
  /\ phase = 1 => verifyCalls <= PlanIterations /\ produceCalls <= PlanIterations
  /\ phase = 2 => verifyCalls <= ResearchIterations /\ produceCalls <= ResearchIterations
  /\ phase = 3 => verifyCalls <= DevPlanIterations /\ produceCalls <= DevPlanIterations
  /\ phase = 5 => verifyCalls <= VerifyIterations /\ produceCalls <= VerifyIterations
  /\ pc \in {"phase2", "phase4"} => candidateId >= 1

\* C4: a verification at or above the threshold ends the gate at that iteration:
\* no produce or verify call follows and the candidate held is the one just
\* verified; with the scores 40, 60, 80, 96 the plan gate ends at the 4th
\* candidate.
C4_StopsAtThreshold ==
  LET n == Len(planQualityLog) IN
  /\ (phase \in {1, 3} /\ n > 0 /\ AtLeast(planQualityLog[n], Threshold)) =>
       /\ pc \in {"p1_loop", "phase2", "p3_loop", "phase4", "catch", "failed"}
       /\ verifyCalls = n
       /\ phase = 1 => produceCalls = n
       /\ verifiedId = candidateId
       /\ pc = "phase2" => plan = currentPlan
  /\ (phase = 1 /\ planQualityLog = <<Num(40), Num(60), Num(80), Num(96)>>) =>
       /\ produceCalls = 4
       /\ verifyCalls = 4
       /\ candidateId = 4
       /\ pc \notin {"p1_plan", "p1_save", "p1_verify"}
  /\ (phase = 2 /\ AtLeast(researchQuality, Threshold)) => pc \in {"p2_loop", "phase3"}
  /\ (phase = 5 /\ AtLeast(overallQuality, Threshold)) => pc \in {"p5_loop", "phase6"}

\* the plan gate saw 40, 60, 80, 96 and returned its 4th candidate
C4_Witness ==
  /\ pc = "phase2"
  /\ phase = 1
  /\ planQualityLog = <<Num(40), Num(60), Num(80), Num(96)>>
  /\ candidateId = 4

\* C5: no gated phase lets the parse error of a verifier reply escape.
C5_UnparsableReplyNeverThrows ==
  \A j \in Throws :
    ~(/\ phaseLog[j].msg = "SyntaxError"
      /\ phaseLog[j].at \in {"p1_verify", "p2_verify", "p3_verify", "p5_verify"})

\* C6: a score that is missing or not a number counts as 0: the quality a gate
\* compares is always a number, and a gate that ends before its budget has seen a
\* number at or above the threshold.
C6_NonNumericScoreIsZero ==
  /\ planQuality.t = "number"
  /\ researchQuality.t = "number"
  /\ overallQuality.t = "number"
  /\ pc = "phase2" => iteration = PlanIterations \/ AtLeast(planQuality, Threshold)
  /\ pc = "phase4" => iteration = DevPlanIterations \/ AtLeast(planQuality, Threshold)
  /\ pc = "phase6" => iteration = VerifyIterations \/ AtLeast(overallQuality, Threshold)

\* all N verifications of the running plan gate scored below the threshold
AllBelow(n) ==
  /\ Len(planQualityLog) = n
  /\ iteration = n
  /\ \A i \in 1..n : LessThan(planQualityLog[i], Threshold)

\* C7: a gate whose N verifications all scored below the threshold ends without
\* an error, returns its last candidate, and the run goes on with the next phase.
C7_ExhaustedBudgetAdvances ==
  [][/\ (pc = "p1_loop" /\ AllBelow(PlanIterations)) =>
          (pc' = "phase2" /\ plan' = currentPlan)
     /\ (pc = "p3_loop" /\ AllBelow(DevPlanIterations)) =>
          (pc' = "phase4" /\ devPlan' = devPlan)
     /\ (pc = "p2_loop" /\ iteration = ResearchIterations
           /\ LessThan(researchQuality, Threshold)) =>
          (pc' = "phase3" /\ researchResults' = researchResults)
     /\ (pc = "p5_loop" /\ iteration = VerifyIterations
           /\ LessThan(overallQuality, Threshold)) => pc' = "phase6"
    ]_vars

Completed == Status("completed") \in issueComments

\* C8: a run that posts the completion comment computed an overall quality of
\* at least 95 in its last verification iteration.
C8_CompletedImpliesQuality ==
  Completed => AtLeast(verificationOutcome.quality, Threshold)

-----------------------------------------------------------------------------
(* Properties of one call of callClaude (checked under SpecAsk).           *)

\* an author recognised as the agent, and a comment that qualifies as the reply
RecognisedAgent(u) == u.claude \/ (u.type = "Bot" /\ u.anthropic)
Qualifies(c) == RecognisedAgent(c.user) /\ c.created_at > t0

\* C9: callClaude returns the body of the first comment, in the order of the
\* issue's comment list, that is written by a recognised agent and created
\* strictly after the request comment; no other comment's body is returned.
C9_ReturnsFirstQualifying ==
  askPc = "returned" =>
    \E i \in 1..Len(comments) :
      /\ Qualifies(comments[i])
      /\ \A j \in 1..(i - 1) : ~Qualifies(comments[j])
      /\ askResult = comments[i].body

\* an agent comment created in the request's own second was passed over and the
\* later agent comment was returned
C9_Witness ==
  /\ askPc = "returned"
  /\ \E i, j \in 1..Len(comments) :
       /\ i < j
       /\ RecognisedAgent(comments[i].user)
       /\ comments[i].created_at = t0
       /\ askResult = comments[j].body

\* C10: callClaude never polls more than maxAttempts times; it times out exactly
\* when maxAttempts polls found no qualifying comment, and then no body was
\* returned; it returns a body only when a qualifying comment exists; while it
\* waits, a further poll is possible and counted, so the wait cannot go on forever.
C10_PollBudget ==
  /\ polls <= maxAttempts
  /\ askPc = "timedout" =>
       /\ polls = maxAttempts
       /\ attempts = maxAttempts
       /\ askResult = 0
       /\ \A i \in 1..Len(comments) : ~Qualifies(comments[i])
  /\ askPc = "returned" =>
       /\ askResult # 0
       /\ \E i \in 1..Len(comments) : Qualifies(comments[i])
  /\ askPc = "polling" =>
       /\ polls = attempts
       /\ attempts < maxAttempts
       /\ ENABLED callClaude_poll

\* the budget ran out although the issue held an agent comment, one that was not
\* created after the request
C10_Witness ==
  /\ askPc = "timedout"
  /\ polls = maxAttempts
  /\ \E i \in 1..Len(comments) :
       RecognisedAgent(comments[i].user) /\ comments[i].created_at <= t0

-----------------------------------------------------------------------------
(* Properties of the two execution paths of the research and development   *)
(* phases (checked under Spec).                                            *)

\* the researchers phase2_research works on
Units == Researchers(plan)

\* the dispatch of the running phase failed to start: its status comment is missing
DispatchFailed(tag) == Status(tag) \notin issueComments

\* C12: a dispatch that fails to start does not fail the run: no error leaves the
\* phase at the dispatch, the sequential path runs the units in their declared
\* order, and when it has returned every unit was executed; for research the
\* mapping returned has exactly the names of the units as its keys.
C12_DispatchFailureFallsBack ==
  /\ \A j \in Throws : phaseLog[j].at \notin {"p2_dispatch", "p4_dispatch"}
  /\ (phase = 2 /\ pc = "p2_seq") =>
       /\ loopIdx \in 1..(Len(Units) + 1)
       /\ researchResults = Results({Units[i] : i \in 1..(loopIdx - 1)}, "parsed")
  /\ (phase = 2 /\ pc = "phase3" /\ DispatchFailed("research-triggered")) =>
       /\ loopIdx = Len(Units) + 1
       /\ Keys(researchResults) = Names(Units)
  /\ (phase = 4 /\ pc = "phase5" /\ DispatchFailed("development-triggered")) =>
       loopIdx = devPlan.components + 1
  /\ (phase = 2 /\ pc \in {"p2_wait", "p2_collect", "p2_loop", "p2_verify", "p2_improve"}) =>
       ~DispatchFailed("research-triggered")
  /\ (phase = 4 /\ pc = "p4_wait") => ~DispatchFailed("development-triggered")

\* the research dispatch failed and the sequential path returned both researchers
C12_Witness ==
  /\ phase = 2
  /\ pc = "phase3"
  /\ DispatchFailed("research-triggered")
  /\ Keys(researchResults) = {"r1", "r2"}

\* phase2_research returned through the delegated path, at this step
DelegatedReturn == pc = "p2_loop" /\ pc' = "phase3"

\* C13: for the same units, with the output of every unit present, the mapping the
\* research phase returns is the one the sequential path returns: the same keys
\* and a value of the same shape under each key, whichever path ran.
C13_PathsReturnTheSameShape ==
  (phase = 2 /\ pc = "phase3" /\ Keys(researchResults) = Names(Units)) =>
    researchResults = Results(Names(Units), "parsed")

\* C15: the delegated path never returns a mapping that lacks a unit: when the
\* collection does not find the output of some unit, the sequential path runs.
C15_MissingOutputFallsBack ==
  [][/\ DelegatedReturn => Names(Units) \subseteq Keys(researchResults')
     /\ (pc = "p2_collect" /\ ~(Names(Units) \subseteq Keys(researchResults'))) =>
          pc' = "p2_seq"
    ]_vars

\* C16: a round of improvements replaces, in the research mapping, the value of
\* each researcher that was run again by that researcher's new output, and leaves
\* every other key and value as it was.
C16_RerunReplacesOneKey ==
  [][(pc = "p2_improve" /\ pc' = "p2_loop") =>
       /\ \A k \in redispatched \cap Keys(researchResults) :
            researchResults'[k] # researchResults[k]
       /\ \A k \in ResultKeys \ redispatched :
            researchResults'[k] = researchResults[k]
    ]_vars

\* C17: the keys of the research mapping are always names of the plan's
\* researchers.
C17_KeysAreResearchers ==
  Keys(researchResults) \subseteq Names(Units)

-----------------------------------------------------------------------------
(* Properties of the successive calls of callClaude (checked under         *)
(* SpecChannel).                                                           *)

\* C11: every call returns a comment the agent wrote in answer to the request of
\* that same call, and no comment is returned to two calls.
C11_ReturnsReplyToOwnRequest ==
  /\ askPc = "returned" => inReplyTo[askResult] = askNo
  /\ \A i \in 1..Len(answered) :
       /\ inReplyTo[answered[i]] = i
       /\ \A j \in 1..Len(answered) : i # j => answered[i] # answered[j]
       /\ askPc = "returned" => askResult # answered[i]

-----------------------------------------------------------------------------
(* Properties of waitForWorkflowCompletion (checked under SpecWait).       *)

\* C14: once a poll has shown the run completed with a conclusion other than
\* success, no further poll is made and the wait does not return successfully.
C14_FailedConclusionEndsWait ==
  failureSeenAt # 0 => (waitPolls = failureSeenAt /\ waitPc # "returned")

\* the status comment processRequest posts before phase k
PhaseStatus(k) == Status(<<"phase1", "phase2", "phase3", "phase4", "phase5", "phase6">>[k])

\* C26: a status comment is there when a phase begins (the one of that phase), when
\* the run completes and when it fails, and a status comment is posted at every
\* iteration boundary of the gate loops (whenever a loop counter advances).
C26_StatusAtEveryBoundary ==
  [][/\ (Len(phaseLog') > Len(phaseLog) /\ phaseLog'[Len(phaseLog')].ev = "begin") =>
          PhaseStatus(phase') \in issueComments'
     /\ (pc' = "done" /\ pc # "done") => Status("completed") \in issueComments'
     /\ (pc' = "failed" /\ pc # "failed") =>
          [tag |-> "error", msg |-> error] \in issueComments'
     /\ iteration' = iteration + 1 => issueComments' # issueComments]_vars

\* C28: the sequential path of a phase is entered only from the dispatch of the
\* job, the wait for it or the collection of its output, never from a call of the
\* agent (a timeout while the research quality is confirmed goes to the catch of
\* processRequest), and a re-run of a single researcher that fails goes there too.
C28_OnlyDispatchFailuresAreRecovered ==
  [][/\ (pc' = "p2_seq" /\ pc # "p2_seq") => pc \in {"p2_dispatch", "p2_wait", "p2_collect"}
     /\ (pc' = "p4_seq" /\ pc # "p4_seq") => pc \in {"p4_dispatch", "p4_wait"}
     /\ (/\ pc = "p2_improve"
         /\ improvements # <<>>
         /\ improvements' = Tail(improvements)
         /\ Head(improvements) \notin redispatched') => pc' = "catch"
    ]_vars

\* C29: every run ends, completed or failed (checked under SpecLive, where every
\* external request returns or fails).
C29_EveryRunEnds == <>(pc \in {"done", "failed"})

\* a run that used the whole budget of the verification loop and completed
C29_Witness ==
  /\ pc = "done"
  /\ verificationOutcome.iterations = VerifyIterations

-----------------------------------------------------------------------------
(* Properties of saveToRepo and createBranch (checked under SpecStore).    *)

SaveEnded == savePc \in {"done", "raised"}

\* C18: saveToRepo writes with the token of the revision it read when
\* there is one, creates the file without error when there is none, and when
\* another writer changed the path between the read and the write the write is
\* rejected and saveToRepo raises.
C18_ChangeBetweenReadAndWriteIsRejected ==
  /\ (savePc # "idle" /\ readFile # "none") => sha = Sha(readFile)
  /\ (SaveEnded /\ readFile = "none" /\ changes = 0 /\ putOutcome # "no-branch") =>
       putOutcome = "created"
  /\ (SaveEnded /\ changes > 0) => savePc = "raised"

\* C19: createBranch on a name that exists returns without an error and leaves the
\* branch as it was, so two calls with the same name end with the branch as the
\* first call left it; a call throws exactly when a request failed with an error
\* other than 'reference already exists'.
C19_CreateBranchIdempotent ==
  /\ \A i \in 1..Len(branchLog) :
       LET c == branchLog[i] IN
       /\ c.thrown <=> c.status \notin {201, 422}
       /\ c.before # 0 => c.after = c.before
       /\ (c.before # 0 /\ c.status \in {201, 422}) => ~c.thrown
       /\ (c.before = 0 /\ ~c.thrown) => c.after = c.main
       /\ c.thrown => c.after = c.before
  /\ \A i, j \in 1..Len(branchLog) :
       (i < j /\ ~branchLog[i].thrown) =>
         /\ branchLog[j].before = branchLog[i].after
         /\ branchLog[j].after = branchLog[i].after
         /\ branchLog[j].status # 201
  /\ Len(branchLog) > 0 => branchRef = branchLog[Len(branchLog)].after

\* two calls succeeded, the second on the existing branch, after main had moved on
C19_Witness ==
  /\ Len(branchLog) = 2
  /\ ~branchLog[1].thrown
  /\ ~branchLog[2].thrown
  /\ branchLog[2].status = 422
  /\ branchLog[2].main # branchLog[1].main
  /\ branchRef = branchLog[1].main

-----------------------------------------------------------------------------
(* Properties of the sessions (checked under SpecSession).                 *)

RECURSIVE Value(_)
\* the number a sequence of decimal digits writes
Value(ds) == IF ds = <<>> THEN 0 ELSE 10 * Value(SubSeq(ds, 1, Len(ds) - 1)) + ds[Len(ds)]

\* C20: the branch name of a session is project-<issueNumber>: "project-" followed
\* by the decimal digits of the issue number and nothing else (project-42 for issue
\* 42); every request of the run carries that name; two sessions have the same name
\* exactly when they are for the same issue.
C20_BranchNameIsFunctionOfIssue ==
  /\ \A i \in 1..Len(sessions) :
       LET s == sessions[i] IN
       /\ Head(s.projectBranch) = "project-"
       /\ \A k \in 2..Len(s.projectBranch) : s.projectBranch[k] \in 0..9
       /\ Len(s.projectBranch) > 1
       /\ s.projectBranch[2] # 0
       /\ Value(Tail(s.projectBranch)) = s.issueNumber
       /\ s.issueNumber = 42 => s.projectBranch = <<"project-", 4, 2>>
       /\ \A k \in 1..Len(s.refs) : s.refs[k] = s.projectBranch
  /\ \A i, j \in 1..Len(sessions) :
       sessions[i].issueNumber = sessions[j].issueNumber
         <=> sessions[i].projectBranch = sessions[j].projectBranch

\* issue 42 was started twice and both runs sent all their requests on project-42
C20_Witness ==
  /\ Len(sessions) = 2
  /\ \A i \in 1..2 :
       /\ sessions[i].issueNumber = 42
       /\ Len(sessions[i].refs) = MaxRequests
       /\ sessions[i].refs[MaxRequests] = <<"project-", 4, 2>>

-----------------------------------------------------------------------------
(* Properties of the webhook handlers (checked under SpecHooks).           *)

\* the step handles a comment of the given kind
Handles(kind) == lastEvent' # lastEvent /\ lastEvent'.kind = kind

\* runs of issue n that have not ended
ActiveRuns(n) == {r \in RunsOf(n) : Running(runs[r])}

\* C21: handling a restart / retry comment, in whatever phase the runs of the issue
\* are, starts a run: it begins at Planning with the issue's requirements text and
\* with no plan taken over from an earlier run.
C21_RestartBeginsAtPlanning ==
  [][Handles("restart") =>
       /\ Len(runs') = Len(runs) + 1
       /\ runs'[Len(runs')].issueNumber = lastEvent'.issueNumber
       /\ runs'[Len(runs')].state = "Planning"
       /\ runs'[Len(runs')].requirements = Body(lastEvent'.issueNumber)
       /\ runs'[Len(runs')].plan = 0]_vars

\* C22: over all runs of an issue no iteration index is used twice and no iteration
\* record is overwritten (every plans/iteration-<i>.json has one writer at most),
\* and a run in its plan loop has written exactly the indexes below its counter.
C22_IterationIndexesNeverReused ==
  /\ \A key \in RecordKeys : Cardinality(records[key]) <= 1
  /\ \A r \in 1..Len(runs) :
       runs[r].state = "Planning" =>
         \A i \in 0..(MaxPlanRecords - 1) :
           r \in records[<<runs[r].issueNumber, i>>] <=> i < runs[r].iteration

\* C23: at any time at most one run of an issue has not ended.
C23_OneActiveRunPerIssue ==
  \A n \in HookIssues : Cardinality(ActiveRuns(n)) <= 1

\* C24: handling an approval comment leaves the runs (their phase, plan and loop
\* position), the iteration records and the branches as they are, and starts no run.
C24_ApprovalChangesNoState ==
  [][Handles("APPROVED") => UNCHANGED <<runs, branches, records>>]_vars

\* an approval was handled while a run of the issue was verifying, with its
\* iteration records on the branch
C24_Witness ==
  /\ lastEvent = HookEvent(42, "APPROVED")
  /\ \E r \in RunsOf(42) : runs[r].state = "Verifying" /\ runs[r].plan = r
  /\ records[<<42, 0>>] # {}

\* C25: an approval is acknowledged only when a run of the issue is in Verifying or
\* Completed.
C25_ApprovalOnlyWhenVerifyingOrCompleted ==
  [][(lastEvent' # lastEvent /\ Acknowledged(lastEvent')) =>
       \E r \in RunsOf(lastEvent'.issueNumber) :
         runs[r].state \in {"Verifying", "Completed"}]_vars

-----------------------------------------------------------------------------
(* Properties of the development plan (checked under SpecDev).             *)

\* every dependency of a component names a component declared before it
DependenciesDeclaredEarlier(dp) ==
  \A i \in 1..Len(dp) :
    dp[i].dependencies \subseteq {dp[j].name : j \in 1..(i - 1)}

\* C27: for a plan in which a component depends on itself, on a component declared
\* later or on an undeclared one, the development phase does not start: nothing is
\* dispatched and no component is implemented.
C27_InvalidDependenciesRejected ==
  ~DependenciesDeclaredEarlier(components) =>
    /\ devPc = "phase4"
    /\ dispatched = <<>>
    /\ implemented = <<>>

-----------------------------------------------------------------------------
(* Properties of sessions running side by side (checked under SpecTasks).  *)

\* C30: the request a session sends names its own issue and its own branch and
\* those of no other session; the reply a session has read was posted on its own
\* issue; and whatever the other sessions do (polling included), an idle session
\* can send its next request and a polling session can poll.
C30_SessionsAreIsolated ==
  /\ lastRequest.by # 0 =>
       /\ lastRequest.issue_number \in {0, tasks[lastRequest.by].issueNumber}
       /\ lastRequest.branch \in {<<>>, tasks[lastRequest.by].projectBranch}
       /\ \A j \in 1..Len(tasks) :
            j # lastRequest.by =>
              /\ lastRequest.issue_number # tasks[j].issueNumber
              /\ lastRequest.branch # tasks[j].projectBranch
  /\ \A i \in 1..Len(tasks) :
       /\ tasks[i].result # <<>> =>
            /\ tasks[i].result = Reply(tasks[i].issueNumber)
            /\ tasks[i].result \in channel[tasks[i].issueNumber]
       /\ tasks[i].pc = "idle" => ENABLED task_callClaude(i)
       /\ tasks[i].pc = "polling" => ENABLED task_poll(i)
       /\ tasks[i].pc \in {"idle", "returned"} => ENABLED task_saveToRepo(i)

\* two sessions have both read their replies, each the one of its own issue, after
\* polling at the same time
C30_Witness ==
  /\ Len(tasks) = 2
  /\ tasks[1].pc = "returned" /\ tasks[1].result = Reply(tasks[1].issueNumber)
  /\ tasks[2].pc = "returned" /\ tasks[2].result = Reply(tasks[2].issueNumber)
  /\ tasks[1].polls > 0 /\ tasks[2].polls > 0

-----------------------------------------------------------------------------
(* Properties of the report phase (checked under Spec).                    *)

Pulls == {j \in 1..Len(repoLog) : repoLog[j].kind = "POST pulls"}

Returned(k) == \E j \in 1..Len(phaseLog) : phaseLog[j] = Event("return", k, "", "")

\* C31: a run that posts the completion comment has had its report written and,
\* after that, exactly one pull request opened; a pull request has the session
\* branch as head and the issue number in its title and body; none is opened
\* before the phases 1 to 5 have returned and the report is written, and a run
\* that threw before phase 6 has opened none.
C31_OnePullRequestAfterTheReport ==
  /\ Completed => repoLog = <<ReportWrite, PullRequest>>
  /\ pc \in {"completing", "done"} => Cardinality(Pulls) = 1
  /\ \A j \in Pulls :
       /\ j = 2 /\ repoLog[1] = ReportWrite
       /\ repoLog[j].branch = "projectBranch"
       /\ repoLog[j].title = "#issueNumber"
       /\ repoLog[j].body = "Closes #issueNumber"
       /\ \A k \in 1..5 : Returned(k)
  /\ (\E j \in Throws : phaseLog[j].ph < 6) => Pulls = {}

\* a run completed, with its pull request opened after the report
C31_Witness == pc = "done" /\ Completed /\ Pulls = {2}

-----------------------------------------------------------------------------
(* Properties of the issues.opened handler (checked under SpecHooks).      *)

\* C32: handling an issue-opened event without the label starts no run and posts
\* nothing (no acknowledgement, and no run that would post its status); handling
\* one with the label starts exactly one run, at Planning, of the event's issue,
\* with the issue body (the empty text for an issue without one) as requirements;
\* and whenever an issue-opened event is the last one handled, a run starts only
\* by a labelled one.
C32_OnlyLabelledIssuesStartARun ==
  [][/\ Handles("unlabelled") =>
          /\ UNCHANGED <<runs, branches, records>>
          /\ ~Acknowledged(lastEvent')
     /\ Handles("issues.opened") =>
          /\ Len(runs') = Len(runs) + 1
          /\ SubSeq(runs', 1, Len(runs)) = runs
          /\ runs'[Len(runs')].issueNumber = lastEvent'.issueNumber
          /\ runs'[Len(runs')].state = "Planning"
          /\ runs'[Len(runs')].requirements
               \in {Body(lastEvent'.issueNumber), <<>>}
     /\ Len(runs') # Len(runs) =>
          /\ Len(runs') = Len(runs) + 1
          /\ lastEvent' = HookEvent(runs'[Len(runs')].issueNumber, "issues.opened")
    ]_vars

\* an unlabelled issue was opened after a labelled one had started a run, and there
\* is still the one run
C32_Witness ==
  /\ lastEvent = HookEvent(42, "unlabelled")
  /\ Len(runs) = 1
  /\ runs[1].startedBy = "issues.opened"
  /\ runs[1].requirements = Body(42)

-----------------------------------------------------------------------------
(* Properties of the scores of a gate (checked under SpecScore).           *)

\* v is an integer between 0 and 100
IntegerScore(v) == v.t = "number" /\ v.n % v.d = 0 /\ 0 <= v.n /\ v.n <= 100 * v.d

\* C33: the value a gate compares with the threshold is an integer in 0..100, and
\* so is every per-verifier score of the verification report of phase 5.
C33_ScoresAreWithinRange ==
  /\ scorePc = "compared" => IntegerScore(scoreCompared)
  /\ scoreGate = 5 =>
       \A i \in 1..Len(scoreResults) : IntegerScore(scoreResults[i].score)

-----------------------------------------------------------------------------
(* Properties of the improvement step of the gates (checked under Spec).   *)

\* C34: a gate asks for an improved development plan, or applies fixes, only while
\* an iteration remains after the running one; the plan of phase 1 and the
\* development plan of phase 3 are returned verified (the last verification looked
\* at the candidate returned), and phase 5 returns with a verification made after
\* its last commit of fixes.
C34_ReturnedCandidateWasVerified ==
  /\ pc = "p3_improve" => iteration + 1 < DevPlanIterations
  /\ pc = "p5_fix" => iteration + 1 < VerifyIterations
  /\ pc \in {"phase2", "phase4"} => verifiedId = candidateId
  /\ pc = "phase6" => verifyCalls > produceCalls

-----------------------------------------------------------------------------
(* Properties of the length of the wait (checked under SpecWait).          *)

\* C35, as claimed: the time waited never exceeds the maximum wait, and a wait
\* that has reached the maximum ends with the error.
C35_WaitNeverExceedsMaximum ==
  /\ elapsed <= maxWaitTime
  /\ (waitPc = "polling" /\ elapsed >= maxWaitTime) =>
       ENABLED waitForWorkflowCompletion_timeout

\* C35, amended: no status poll begins once the maximum wait has elapsed, so a wait
\* makes at most maxWaitTime / checkInterval polls and overruns the maximum by less
\* than the last poll and its pause; once the maximum has elapsed the wait can only
\* end with the error, which is thrown at no other time, whatever the polls showed
\* and also when each of them failed.
C35_WaitEndsAfterMaximum ==
  /\ waitPolls <= maxWaitTime \div checkInterval
  /\ elapsed < maxWaitTime + checkInterval + RequestTime
  /\ (waitPc = "polling" /\ elapsed >= maxWaitTime) =>
       /\ ENABLED waitForWorkflowCompletion_timeout
       /\ ~ENABLED waitForWorkflowCompletion_poll
  /\ waitPc = "thrown" => elapsed >= maxWaitTime

\* the wait ended with the error after its full number of polls, none of which
\* showed a completed run, the last one ending after the maximum
C35_Witness ==
  /\ waitPc = "thrown"
  /\ waitPolls = maxWaitTime \div checkInterval
  /\ failureSeenAt = 0
  /\ elapsed > maxWaitTime

-----------------------------------------------------------------------------
(* Properties of the two orchestrators (checked under SpecVariants).       *)

\* C36: with the job runner never available and the same agent replies, phase 2
\* of the orchestrator with the fallback has sent, when it returns, the requests
\* the sequential orchestrator sends (the verification requests of the research
\* quality loop and the improvement requests included), and returns the same
\* results.
C36_FallbackEqualsSequential ==
  (fallbackRun.pc = "returned" /\ sequentialRun.pc = "returned") =>
    /\ fallbackRun.requests = sequentialRun.requests
    /\ fallbackRun.results = sequentialRun.results

-----------------------------------------------------------------------------
(* Properties of the order of branch creation and writes (under Spec).     *)

\* positions of the run at which it writes a file to the project branch or
\* dispatches a job on it
BranchRequests == {"p1_save", "p2_save", "p2_dispatch", "p2_improve", "p4_save",
                   "p4_dispatch", "p4_seq", "p5_fix", "p6_save"}

\* the createBranch call of this run has returned
CreateBranchReturned == phase > 4 \/ (phase = 4 /\ pc \notin {"phase4", "p4_branch"})

\* C37: a step of the run in which a write to the project branch or a dispatch on
\* it is accepted is taken after the createBranch call of the run has returned.
C37_BranchCreatedBeforeUse ==
  [][(pc \in BranchRequests /\ pc' # "catch") => CreateBranchReturned]_vars

-----------------------------------------------------------------------------
(* Properties of the run a wait looks at (checked under SpecWait).         *)

\* C38: a wait that returns has seen the successful end of a run created after
\* the dispatch it follows.
C38_WaitReturnsOnTheDispatchedRun ==
  waitPc = "returned" => latestIsNew

-----------------------------------------------------------------------------
(* Properties of the comments that come back (checked under SpecThread).   *)

Acknowledgements == {i \in 1..Len(thread) : thread[i].kind = "acknowledgement"}

\* C39: every acknowledgement answers a comment of a user (none answers a status,
\* an agent request, an error notice or an acknowledgement of the app), a comment
\* is acknowledged once at most, and no acknowledgement is itself recognised.
C39_OwnCommentsAreNotCommands ==
  /\ \A i \in Acknowledgements : thread[thread[i].of].author = "user"
  /\ \A i, j \in Acknowledgements : thread[i].of = thread[j].of => i = j
  /\ \A i \in Acknowledgements : ~thread[i].approved

-----------------------------------------------------------------------------
(* Properties of a call and its entry point (checked under SpecCall).      *)

FailureNotices == {i \in 1..Len(notices) : notices[i].tag = "error"}

CompletionNotices == {i \in 1..Len(notices) : notices[i].tag = "completed"}

\* C40: a run that has failed has one failure notification on the issue, the
\* entry point that called it adds no second one, and no issue carries both a
\* failure notification and the completion message.
C40_FailedRunNotifiesOnce ==
  /\ Cardinality(FailureNotices) <= 1
  /\ (callPc = "done" /\ callError # "none") => Cardinality(FailureNotices) = 1
  /\ ~(FailureNotices # {} /\ CompletionNotices # {})

=============================================================================
